---- MODULE Spec2Model ----
(***************************************************************************)
(* A model of the re-redis sans-I/O core: the incremental RESP response    *)
(* parser (src/src/sans_io/response_parser.rs), the command pipeline that  *)
(* owns it (src/src/sans_io/redis_impl.rs) and the blocking client that    *)
(* drives both (src/src/sync.rs).                                          *)
(*                                                                         *)
(* Bytes are naturals 0..255.  Rust offsets are 0-based, TLA+ sequences    *)
(* are 1-based: data[p] in the source is data[p + 1] here.  A signed       *)
(* 64-bit integer is kept as a sign and its decimal digits so that the     *)
(* whole range is available.                                               *)
(***************************************************************************)
EXTENDS Integers, Sequences, FiniteSets, TLC

VARIABLES
    \* ResponseParser
    buffer, ptr, state,
    \* history of the parser: what the last call returned, the values pulled
    \* so far, the first ParseError returned, whether a pull has stopped
    \* inside a token, the bytes removed from the front of the buffer and the
    \* position of the cursor in the whole stream
    last, outputs, err, resumed, discarded, consumed,
    \* the response byte stream, the values it encodes (when it is the
    \* encoding of values), and the number of its bytes fed to the parser
    stream, frames, valid, sent,
    \* the client: its position in issue, the commands issued, what each
    \* issue returned, the bytes the reader has taken off the socket, and the
    \* chunks waiting in the inbound channel
    pc, cmds, replies, wire, chan,
    \* the connection: the bytes the server has written to the socket, whether
    \* it has closed the connection, and the position of the reader thread,
    \* which owns the sending half of the inbound channel: "run" in its loop,
    \* "hungup" after the break on a failed send, "done" after the break on a
    \* failed read, "panic" after the unwrap of a failed send
    srv, eof, rd,
    \* the command layer: whether the build has debug assertions (and with
    \* them the arithmetic overflow checks), the constructor call made, the
    \* command value it returned as changed by the builder methods, what
    \* get_bytes returned for it, and the response converted for it together
    \* with what the call returned
    debug_assertions, call, command, request, outcome

parserVars == <<buffer, ptr, state>>
historyVars == <<last, outputs, err, resumed, discarded, consumed>>
streamVars == <<stream, frames, valid>>
pipeVars == <<pc, cmds, replies, wire, chan>>
connVars == <<srv, eof, rd>>
callVars == <<debug_assertions, call, command, request, outcome>>
vars == <<buffer, ptr, state, last, outputs, err, resumed, discarded, consumed,
          stream, frames, valid, sent, pc, cmds, replies, wire, chan,
          srv, eof, rd, debug_assertions, call, command, request, outcome>>

(***************************************************************************)
(* Bounds of the model.                                                    *)
(***************************************************************************)
\* total number of value nodes in the frames of one generated response stream
MaxNodes == 2
\* length of the arbitrary byte sequences fed to the parser
JunkLen == 3
\* total number of value nodes in the responses of one pipeline run
PipeNodes == 2
\* largest partial chunk the transport reader hands over at once
MaxChunk == 1
\* chunks that may wait in the inbound channel
MaxChan == 1

(***************************************************************************)
(* Bytes.                                                                  *)
(***************************************************************************)
CR == 13
LF == 10
Colon == 58
Plus == 43
Minus == 45
Dollar == 36
Star == 42
Space == 32
Digit0 == 48

Min(a, b) == IF a < b THEN a ELSE b
Max(a, b) == IF a > b THEN a ELSE b

\* data[from..to] of the source: 0-based, to exclusive
Slice(data, from, to) == SubSeq(data, from + 1, to)

(***************************************************************************)
(* std::str::from_utf8: is the byte sequence well-formed UTF-8?            *)
(***************************************************************************)
IsCont(b, lo, hi) == b >= lo /\ b <= hi

RECURSIVE IsUtf8From(_, _)
IsUtf8From(bs, i) ==
    IF i > Len(bs) THEN TRUE
    ELSE LET b == bs[i]
             n == Len(bs)
         IN  IF b < 128 THEN IsUtf8From(bs, i + 1)
             ELSE IF b >= 194 /\ b <= 223
               THEN i + 1 <= n /\ IsCont(bs[i + 1], 128, 191) /\ IsUtf8From(bs, i + 2)
             ELSE IF b >= 224 /\ b <= 239
               THEN /\ i + 2 <= n
                    /\ IsCont(bs[i + 1], IF b = 224 THEN 160 ELSE 128,
                                         IF b = 237 THEN 159 ELSE 191)
                    /\ IsCont(bs[i + 2], 128, 191)
                    /\ IsUtf8From(bs, i + 3)
             ELSE IF b >= 240 /\ b <= 244
               THEN /\ i + 3 <= n
                    /\ IsCont(bs[i + 1], IF b = 240 THEN 144 ELSE 128,
                                         IF b = 244 THEN 143 ELSE 191)
                    /\ IsCont(bs[i + 2], 128, 191)
                    /\ IsCont(bs[i + 3], 128, 191)
                    /\ IsUtf8From(bs, i + 4)
             ELSE FALSE

from_utf8(bs) == IsUtf8From(bs, 1)

(***************************************************************************)
(* Signed 64-bit integers as [neg, mag]: mag is the decimal magnitude,     *)
(* most significant digit first, without leading zeros (zero is <<0>>).    *)
(***************************************************************************)
I64(neg, mag) == [neg |-> neg, mag |-> mag]
Zero == I64(FALSE, <<0>>)
MinusOne == I64(TRUE, <<1>>)

I64MaxMag == <<9,2,2,3,3,7,2,0,3,6,8,5,4,7,7,5,8,0,7>>
I64MinMag == <<9,2,2,3,3,7,2,0,3,6,8,5,4,7,7,5,8,0,8>>

RECURSIVE StripZeros(_)
StripZeros(ds) ==
    IF Len(ds) > 1 /\ ds[1] = 0 THEN StripZeros(Tail(ds)) ELSE ds

RECURSIVE LexLeq(_, _)
LexLeq(a, b) ==
    IF a = <<>> THEN TRUE
    ELSE IF a[1] # b[1] THEN a[1] < b[1]
    ELSE LexLeq(Tail(a), Tail(b))

\* a <= b for magnitudes without leading zeros
MagLeq(a, b) == Len(a) < Len(b) \/ (Len(a) = Len(b) /\ LexLeq(a, b))

IsDigit(b) == b >= Digit0 /\ b <= Digit0 + 9

\* a from_str that does not check the range
ParseI64_Unchecked(text) ==
    LET signed == text # <<>> /\ text[1] \in {Plus, Minus}
        neg == text # <<>> /\ text[1] = Minus
        body == IF signed THEN Tail(text) ELSE text
        mag == StripZeros([i \in 1..Len(body) |-> body[i] - Digit0])
    IN  IF body = <<>> \/ \E i \in 1..Len(body) : ~IsDigit(body[i])
          THEN [ok |-> FALSE]
        ELSE [ok |-> TRUE, int |-> I64(neg /\ mag # <<0>>, mag)]

\* <i64 as FromStr>::from_str: optional sign, at least one digit, in range
ParseI64(text) ==
    LET signed == text # <<>> /\ text[1] \in {Plus, Minus}
        neg == text # <<>> /\ text[1] = Minus
        body == IF signed THEN Tail(text) ELSE text
        mag == StripZeros([i \in 1..Len(body) |-> body[i] - Digit0])
    IN  IF body = <<>> \/ \E i \in 1..Len(body) : ~IsDigit(body[i])
          THEN [ok |-> FALSE]
        ELSE IF ~MagLeq(mag, IF neg THEN I64MinMag ELSE I64MaxMag)
          THEN [ok |-> FALSE]
        ELSE [ok |-> TRUE, int |-> I64(neg /\ mag # <<0>>, mag)]

\* <i64 as Display>::fmt
I64ToString(int) ==
    (IF int.neg THEN <<Minus>> ELSE <<>>) \o [i \in 1..Len(int.mag) |-> int.mag[i] + Digit0]

RECURSIVE MagToNat(_)
MagToNat(ds) ==
    IF ds = <<>> THEN 0 ELSE 10 * MagToNat(SubSeq(ds, 1, Len(ds) - 1)) + ds[Len(ds)]

\* decimal digits of a natural number
RECURSIVE NatToMag(_)
NatToMag(n) == IF n < 10 THEN <<n>> ELSE Append(NatToMag(n \div 10), n % 10)

NatToMagBytes(n) == [i \in 1..Len(NatToMag(n)) |-> NatToMag(n)[i] + Digit0]

\* int >= 1
IsPositive(int) == ~int.neg /\ int # Zero

\* `int as usize` compared with a small offset: int = n
EqualsNat(int, n) == ~int.neg /\ Len(int.mag) <= 9 /\ MagToNat(int.mag) = n

(***************************************************************************)
(* RedisResult (src/src/types/redis_values.rs).                            *)
(***************************************************************************)
Integer(int) == [t |-> "Integer", int |-> int]
String(bytes) == [t |-> "String", bytes |-> bytes]
Error(contents) == [t |-> "Error", contents |-> contents]
Array(elements) == [t |-> "Array", elements |-> elements]
Null == [t |-> "Null"]

(***************************************************************************)
(* ParseError and the result of one parse.                                 *)
(***************************************************************************)
CannotParseInteger == [e |-> "CannotParseInteger"]
CannotConvertToUtf8 == [e |-> "CannotConvertToUtf8"]
InvalidBulkStringLength(int) == [e |-> "InvalidBulkStringLength", int |-> int]
InvalidArrayLength(int) == [e |-> "InvalidArrayLength", int |-> int]
InvalidResponseTypePrefix(byte) == [e |-> "InvalidResponseTypePrefix", byte |-> byte]
ParserIsInAnErrorState == [e |-> "ParserIsInAnErrorState"]

\* Ok(None), Ok(Some(value)), Err(error), and a panic of the calling thread
OkNone == [kind |-> "None"]
OkSome(value) == [kind |-> "Some", value |-> value]
Err(error) == [kind |-> "Err", error |-> error]
Panic == [kind |-> "Panic"]

(***************************************************************************)
(* ResponseParserState.                                                    *)
(***************************************************************************)
Waiting == [tag |-> "Waiting"]
Errored == [tag |-> "Errored"]
ParsingInteger(start) == [tag |-> "ParsingInteger", start |-> start]
ParsingSimpleString(start) == [tag |-> "ParsingSimpleString", start |-> start]
ParsingError(start) == [tag |-> "ParsingError", start |-> start]
ParsingBulkStringSize(start) == [tag |-> "ParsingBulkStringSize", start |-> start]
ParsingBulkString(start, size) == [tag |-> "ParsingBulkString", start |-> start, size |-> size]
ParsingArraySize(start) == [tag |-> "ParsingArraySize", start |-> start]
\* elements is the Vec, capacity the capacity it was allocated with
ParsingArray(elements, capacity, cur_state) ==
    [tag |-> "ParsingArray", elements |-> elements, capacity |-> capacity,
     cur_state |-> cur_state]

RECURSIVE max_needed_buffer(_, _)
max_needed_buffer(st, current) ==
    IF st.tag \in {"Waiting", "Errored"} THEN 0
    ELSE IF st.tag = "ParsingArray" THEN max_needed_buffer(st.cur_state, current)
    ELSE current - st.start

(***************************************************************************)
(* parse_response, one arm of its match per definition.  An arm either     *)
(* returns from the function (done) or goes round the while loop again.    *)
(***************************************************************************)
Cont(p, st) == [done |-> FALSE, ptr |-> p, state |-> st, res |-> OkNone]
Ret(p, st, res) == [done |-> TRUE, ptr |-> p, state |-> st, res |-> res]

\* &data[from..to] panics unless from <= to <= data.len()
SliceOk(data, from, to) == from <= to /\ to <= Len(data)

\* Option<Result<i64, ParseError>>, or the panic of an out-of-range slice
parse_integer(data, start, p) ==
    IF data[p + 1] # CR THEN [kind |-> "None"]
    ELSE IF ~SliceOk(data, start, p) THEN [kind |-> "Panic"]
    ELSE LET text == Slice(data, start, p)
         IN  IF ~from_utf8(text) THEN [kind |-> "Err", error |-> CannotConvertToUtf8]
             ELSE LET n == ParseI64(text)
                  IN  IF n.ok THEN [kind |-> "Ok", int |-> n.int]
                      ELSE [kind |-> "Err", error |-> CannotParseInteger]

parse_simple_string(data, start, p) ==
    IF data[p + 1] # CR THEN [kind |-> "None"]
    ELSE IF ~SliceOk(data, start, p) THEN [kind |-> "Panic"]
    ELSE [kind |-> "Some", bytes |-> Slice(data, start, p)]

\* a Waiting arm that records the offset of the prefix byte as the start
WaitingArm_StartAtPrefix(data, p) ==
    LET c == data[p + 1]
    IN  IF c = Colon THEN Cont(p + 1, ParsingInteger(p))
        ELSE IF c = Plus THEN Cont(p + 1, ParsingSimpleString(p))
        ELSE IF c = Minus THEN Cont(p + 1, ParsingError(p))
        ELSE IF c = Dollar THEN Cont(p + 1, ParsingBulkStringSize(p))
        ELSE IF c = Star THEN Cont(p + 1, ParsingArraySize(p))
        ELSE Ret(p, Errored, Err(InvalidResponseTypePrefix(c)))

WaitingArm(data, p) ==
    LET c == data[p + 1]
    IN  IF c = Colon THEN Cont(p + 1, ParsingInteger(p + 1))
        ELSE IF c = Plus THEN Cont(p + 1, ParsingSimpleString(p + 1))
        ELSE IF c = Minus THEN Cont(p + 1, ParsingError(p + 1))
        ELSE IF c = Dollar THEN Cont(p + 1, ParsingBulkStringSize(p + 1))
        ELSE IF c = Star THEN Cont(p + 1, ParsingArraySize(p + 1))
        ELSE Ret(p, Errored, Err(InvalidResponseTypePrefix(c)))

ParsingIntegerArm(data, p, st) ==
    LET r == parse_integer(data, st.start, p)
    IN  CASE r.kind = "Ok" -> Ret(p + 2, Waiting, OkSome(Integer(r.int)))
          [] r.kind = "Err" -> Ret(p, Errored, Err(r.error))
          [] r.kind = "None" -> Cont(p + 1, st)
          [] r.kind = "Panic" -> Ret(p, st, Panic)

ParsingSimpleStringArm(data, p, st) ==
    LET r == parse_simple_string(data, st.start, p)
    IN  CASE r.kind = "Some" -> Ret(p + 2, Waiting, OkSome(String(r.bytes)))
          [] r.kind = "None" -> Cont(p + 1, st)
          [] r.kind = "Panic" -> Ret(p, st, Panic)

ParsingErrorArm(data, p, st) ==
    LET r == parse_simple_string(data, st.start, p)
    IN  CASE r.kind = "Some" ->
               IF from_utf8(r.bytes)
                 THEN Ret(p + 2, Waiting, OkSome(Error(r.bytes)))
                 ELSE Ret(p + 2, Errored, Err(CannotConvertToUtf8))
          [] r.kind = "None" -> Cont(p + 1, st)
          [] r.kind = "Panic" -> Ret(p, st, Panic)

\* a size arm that skips five bytes after the length of an empty bulk string
ParsingBulkStringSizeArm_LongSkip(data, p, st) ==
    LET r == parse_integer(data, st.start, p)
    IN  CASE r.kind = "Ok" ->
               IF IsPositive(r.int) THEN Cont(p + 2, ParsingBulkString(p + 2, r.int))
               ELSE IF r.int = Zero THEN Ret(p + 5, Waiting, OkSome(String(<<>>)))
               ELSE IF r.int = MinusOne THEN Ret(p + 2, Waiting, OkSome(Null))
               ELSE Ret(p, Errored, Err(InvalidBulkStringLength(r.int)))
          [] r.kind = "Err" -> Ret(p, Errored, Err(r.error))
          [] r.kind = "None" -> Cont(p + 1, st)
          [] r.kind = "Panic" -> Ret(p, st, Panic)

\* a size arm that skips only one terminator after an empty bulk string
ParsingBulkStringSizeArm_ShortSkip(data, p, st) ==
    LET r == parse_integer(data, st.start, p)
    IN  CASE r.kind = "Ok" ->
               IF IsPositive(r.int) THEN Cont(p + 2, ParsingBulkString(p + 2, r.int))
               ELSE IF r.int = Zero THEN Ret(p + 2, Waiting, OkSome(String(<<>>)))
               ELSE IF r.int = MinusOne THEN Ret(p + 2, Waiting, OkSome(Null))
               ELSE Ret(p, Errored, Err(InvalidBulkStringLength(r.int)))
          [] r.kind = "Err" -> Ret(p, Errored, Err(r.error))
          [] r.kind = "None" -> Cont(p + 1, st)
          [] r.kind = "Panic" -> Ret(p, st, Panic)

ParsingBulkStringSizeArm(data, p, st) ==
    LET r == parse_integer(data, st.start, p)
    IN  CASE r.kind = "Ok" ->
               IF IsPositive(r.int) THEN Cont(p + 2, ParsingBulkString(p + 2, r.int))
               ELSE IF r.int = Zero THEN Ret(p + 4, Waiting, OkSome(String(<<>>)))
               ELSE IF r.int = MinusOne THEN Ret(p + 2, Waiting, OkSome(Null))
               ELSE Ret(p, Errored, Err(InvalidBulkStringLength(r.int)))
          [] r.kind = "Err" -> Ret(p, Errored, Err(r.error))
          [] r.kind = "None" -> Cont(p + 1, st)
          [] r.kind = "Panic" -> Ret(p, st, Panic)

\* *start + *size == *ptr, and *start + *size < *ptr
AtEndOfBulk(st, p) ==
    Len(st.size.mag) <= 9 /\ st.start + MagToNat(st.size.mag) = p
BeyondEndOfBulk(st, p) ==
    Len(st.size.mag) <= 9 /\ st.start + MagToNat(st.size.mag) < p

\* a bulk-string arm that moves the cursor by two bytes at a time
ParsingBulkStringArm_StepsTwo(data, p, st) ==
    IF AtEndOfBulk(st, p)
      THEN IF SliceOk(data, st.start, p)
             THEN Ret(p + 2, Waiting, OkSome(String(Slice(data, st.start, p))))
             ELSE Ret(p + 2, Waiting, Panic)
    ELSE IF BeyondEndOfBulk(st, p) THEN Ret(p, st, Panic)
    ELSE Cont(p + 2, st)

ParsingBulkStringArm(data, p, st) ==
    IF AtEndOfBulk(st, p)
      THEN IF SliceOk(data, st.start, p)
             THEN Ret(p + 2, Waiting, OkSome(String(Slice(data, st.start, p))))
             ELSE Ret(p + 2, Waiting, Panic)
    ELSE IF BeyondEndOfBulk(st, p) THEN Ret(p, st, Panic)
    ELSE Cont(p + 1, st)

\* Vec::<RedisResult>::with_capacity(n) cannot succeed when n elements of
\* 32 bytes exceed isize::MAX bytes: n > (2^63 - 1) div 32.
MaxCapacity == <<2,8,8,2,3,0,3,7,6,1,5,1,7,1,1,7,4,3>>
with_capacity_fails(int) == ~MagLeq(int.mag, MaxCapacity)

\* a size arm that takes every negative array length for the null array
ParsingArraySizeArm_AnyNegativeIsNull(data, p, st) ==
    LET r == parse_integer(data, st.start, p)
    IN  CASE r.kind = "Ok" ->
               IF IsPositive(r.int)
                 THEN IF with_capacity_fails(r.int)
                        THEN Ret(p + 2, st, Panic)
                        ELSE Cont(p + 2, ParsingArray(<<>>, r.int, Waiting))
               ELSE IF r.int = Zero THEN Ret(p + 2, Waiting, OkSome(Array(<<>>)))
               ELSE Ret(p + 2, Waiting, OkSome(Null))
          [] r.kind = "Err" -> Ret(p, Errored, Err(r.error))
          [] r.kind = "None" -> Cont(p + 1, st)
          [] r.kind = "Panic" -> Ret(p, st, Panic)

\* a size arm that allocates room for one element more than declared
ParsingArraySizeArm_SpareCapacity(data, p, st) ==
    LET r == parse_integer(data, st.start, p)
    IN  CASE r.kind = "Ok" ->
               IF IsPositive(r.int)
                 THEN IF with_capacity_fails(r.int)
                        THEN Ret(p + 2, st, Panic)
                        ELSE Cont(p + 2,
                                  ParsingArray(<<>>,
                                               I64(FALSE, NatToMag(MagToNat(r.int.mag) + 1)),
                                               Waiting))
               ELSE IF r.int = Zero THEN Ret(p + 2, Waiting, OkSome(Array(<<>>)))
               ELSE IF r.int = MinusOne THEN Ret(p + 2, Waiting, OkSome(Null))
               ELSE Ret(p, Errored, Err(InvalidArrayLength(r.int)))
          [] r.kind = "Err" -> Ret(p, Errored, Err(r.error))
          [] r.kind = "None" -> Cont(p + 1, st)
          [] r.kind = "Panic" -> Ret(p, st, Panic)

ParsingArraySizeArm(data, p, st) ==
    LET r == parse_integer(data, st.start, p)
    IN  CASE r.kind = "Ok" ->
               IF IsPositive(r.int)
                 THEN IF with_capacity_fails(r.int)
                        THEN Ret(p + 2, st, Panic)
                        ELSE Cont(p + 2, ParsingArray(<<>>, r.int, Waiting))
               ELSE IF r.int = Zero THEN Ret(p + 2, Waiting, OkSome(Array(<<>>)))
               ELSE IF r.int = MinusOne THEN Ret(p + 2, Waiting, OkSome(Null))
               ELSE Ret(p, Errored, Err(InvalidArrayLength(r.int)))
          [] r.kind = "Err" -> Ret(p, Errored, Err(r.error))
          [] r.kind = "None" -> Cont(p + 1, st)
          [] r.kind = "Panic" -> Ret(p, st, Panic)

\* a fullness test that is one element early
IsFull_OneEarly(elements, capacity) == EqualsNat(capacity, Len(elements) + 1)

\* elements.len() == elements.capacity()
IsFull(elements, capacity) == EqualsNat(capacity, Len(elements))

\* a ParsingArray arm that returns the full array and stays in its state
ParsingArrayArm_StaysInArray(st, inner) ==
    CASE inner.res.kind = "Some" ->
           LET elements == Append(st.elements, inner.res.value)
           IN  IF IsFull(elements, st.capacity)
                 THEN Ret(inner.ptr, ParsingArray(elements, st.capacity, inner.state),
                          OkSome(Array(elements)))
                 ELSE Cont(inner.ptr, ParsingArray(elements, st.capacity, inner.state))
      [] inner.res.kind = "None" ->
           Cont(inner.ptr, ParsingArray(st.elements, st.capacity, inner.state))
      [] inner.res.kind = "Err" -> Ret(inner.ptr, Errored, inner.res)
      [] inner.res.kind = "Panic" -> Ret(inner.ptr, st, Panic)

\* a ParsingArray arm that returns an element's error and keeps its state
ParsingArrayArm_KeepsElements(st, inner) ==
    CASE inner.res.kind = "Some" ->
           LET elements == Append(st.elements, inner.res.value)
           IN  IF IsFull(elements, st.capacity)
                 THEN Ret(inner.ptr, Waiting, OkSome(Array(elements)))
                 ELSE Cont(inner.ptr, ParsingArray(elements, st.capacity, inner.state))
      [] inner.res.kind = "None" ->
           Cont(inner.ptr, ParsingArray(st.elements, st.capacity, inner.state))
      [] inner.res.kind = "Err" ->
           Ret(inner.ptr, ParsingArray(st.elements, st.capacity, inner.state), inner.res)
      [] inner.res.kind = "Panic" -> Ret(inner.ptr, st, Panic)

\* the ParsingArray arm, given what the recursive call on cur_state returned
ParsingArrayArm(st, inner) ==
    CASE inner.res.kind = "Some" ->
           LET elements == Append(st.elements, inner.res.value)
           IN  IF IsFull(elements, st.capacity)
                 THEN Ret(inner.ptr, Waiting, OkSome(Array(elements)))
                 ELSE Cont(inner.ptr, ParsingArray(elements, st.capacity, inner.state))
      [] inner.res.kind = "None" ->
           Cont(inner.ptr, ParsingArray(st.elements, st.capacity, inner.state))
      [] inner.res.kind = "Err" -> Ret(inner.ptr, Errored, inner.res)
      [] inner.res.kind = "Panic" -> Ret(inner.ptr, st, Panic)

\* an Errored arm that reports the error and starts afresh
ErroredArm_Resets(p, st) == Ret(p, Waiting, Err(ParserIsInAnErrorState))

ErroredArm(p, st) == Ret(p, st, Err(ParserIsInAnErrorState))

RECURSIVE parse_response(_, _, _)
parse_response(data, p, st) ==
    IF ~(p < Len(data)) THEN Ret(p, st, OkNone)
    ELSE LET step ==
               CASE st.tag = "Waiting" -> WaitingArm(data, p)
                 [] st.tag = "ParsingInteger" -> ParsingIntegerArm(data, p, st)
                 [] st.tag = "ParsingSimpleString" -> ParsingSimpleStringArm(data, p, st)
                 [] st.tag = "ParsingError" -> ParsingErrorArm(data, p, st)
                 [] st.tag = "ParsingBulkStringSize" -> ParsingBulkStringSizeArm(data, p, st)
                 [] st.tag = "ParsingBulkString" -> ParsingBulkStringArm(data, p, st)
                 [] st.tag = "ParsingArraySize" -> ParsingArraySizeArm(data, p, st)
                 [] st.tag = "ParsingArray" ->
                      ParsingArrayArm(st, parse_response(data, p, st.cur_state))
                 [] st.tag = "Errored" -> ErroredArm(p, st)
         IN  IF step.done THEN step ELSE parse_response(data, step.ptr, step.state)

(***************************************************************************)
(* ResponseParser::feed and ResponseParser::get_response.                  *)
(***************************************************************************)
\* a feed that keeps only the newest chunk
feed_Replaces(buf, response) == response

\* a feed that puts the chunk in front of what the buffer holds
feed_Prepends(buf, response) == response \o buf

feed(buf, response) == buf \o response

\* a reclamation that clamps the reclamation point to buffer.len() - 2
Reclaim_ClampsEarlier(buf, p, st) ==
    IF max_needed_buffer(st, p) > p \/ Len(buf) = 0
      THEN [panic |-> TRUE, buffer |-> buf, ptr |-> p]
      ELSE LET needed_buffer_start ==
                 Min(p - max_needed_buffer(st, p), Max(Len(buf) - 2, 0))
           IN  [panic |-> FALSE,
                buffer |-> SubSeq(buf, needed_buffer_start + 1, Len(buf)),
                ptr |-> p - needed_buffer_start]

\* a reclamation that puts the cursor at the front of what is left
Reclaim_ResetsCursor(buf, p, st) ==
    IF max_needed_buffer(st, p) > p \/ Len(buf) = 0
      THEN [panic |-> TRUE, buffer |-> buf, ptr |-> p]
      ELSE LET needed_buffer_start == Min(p - max_needed_buffer(st, p), Len(buf) - 1)
           IN  [panic |-> FALSE,
                buffer |-> SubSeq(buf, needed_buffer_start + 1, Len(buf)),
                ptr |-> 0]

\* a reclamation that discards the prefix but does not shift the cursor
Reclaim_KeepsCursor(buf, p, st) ==
    IF max_needed_buffer(st, p) > p \/ Len(buf) = 0
      THEN [panic |-> TRUE, buffer |-> buf, ptr |-> p]
      ELSE LET needed_buffer_start == Min(p - max_needed_buffer(st, p), Len(buf) - 1)
           IN  [panic |-> FALSE,
                buffer |-> SubSeq(buf, needed_buffer_start + 1, Len(buf)),
                ptr |-> p]

\* the prefix reclamation of get_response, run after Ok(Some(_)):
\* the new buffer and cursor, or the panic of an arithmetic underflow
Reclaim(buf, p, st) ==
    IF max_needed_buffer(st, p) > p \/ Len(buf) = 0
      THEN [panic |-> TRUE, buffer |-> buf, ptr |-> p]
      ELSE LET needed_buffer_start == Min(p - max_needed_buffer(st, p), Len(buf) - 1)
           IN  [panic |-> FALSE,
                buffer |-> SubSeq(buf, needed_buffer_start + 1, Len(buf)),
                ptr |-> p - needed_buffer_start]

\* a get_response that runs the reclamation after Ok(None) as well
AfterParse_ReclaimsAlways(buf, r) ==
    IF r.res.kind \in {"Some", "None"}
      THEN LET c == Reclaim(buf, r.ptr, r.state)
           IN  [buffer |-> c.buffer, ptr |-> c.ptr, state |-> r.state,
                res |-> IF c.panic THEN Panic ELSE r.res, parsed |-> r.ptr]
      ELSE [buffer |-> buf, ptr |-> r.ptr, state |-> r.state, res |-> r.res,
            parsed |-> r.ptr]

\* get_response once parse_response has returned r: the reclamation after
\* Ok(Some(_)), the parser as it is left, and what get_response returns
AfterParse(buf, r) ==
    IF r.res.kind = "Some"
      THEN LET c == Reclaim(buf, r.ptr, r.state)
           IN  [buffer |-> c.buffer, ptr |-> c.ptr, state |-> r.state,
                res |-> IF c.panic THEN Panic ELSE r.res, parsed |-> r.ptr]
      ELSE [buffer |-> buf, ptr |-> r.ptr, state |-> r.state, res |-> r.res,
            parsed |-> r.ptr]

\* the parser after get_response, and what get_response returned
get_response(buf, p, st) == AfterParse(buf, parse_response(buf, p, st))

(***************************************************************************)
(* The RESP encoding of a value, as the parser's tests write it: integers  *)
(* as ":<decimal>", byte-strings as bulk strings, Null as the null bulk    *)
(* string, errors as "-<payload>", arrays as "*<count>" and the elements.  *)
(***************************************************************************)
Line(bytes) == bytes \o <<CR, LF>>

\* a frame that is no value: an integer frame without digits
Unparsable == [t |-> "Unparsable"]

RECURSIVE EncodeValue(_)
RECURSIVE EncodeAll(_)
EncodeValue(v) ==
    CASE v.t = "Integer" -> Line(<<Colon>> \o I64ToString(v.int))
      [] v.t = "String" -> Line(<<Dollar>> \o NatToMagBytes(Len(v.bytes))) \o Line(v.bytes)
      [] v.t = "Null" -> Line(<<Dollar, Minus, Digit0 + 1>>)
      [] v.t = "Error" -> Line(<<Minus>> \o v.contents)
      [] v.t = "Array" -> Line(<<Star>> \o NatToMagBytes(Len(v.elements)))
                            \o EncodeAll(v.elements)
      [] v.t = "Unparsable" -> Line(<<Colon>>)
EncodeAll(vs) ==
    IF vs = <<>> THEN <<>> ELSE EncodeValue(Head(vs)) \o EncodeAll(Tail(vs))

(***************************************************************************)
(* The inputs of the parser.                                               *)
(***************************************************************************)
IntOf(neg, n) == Integer(I64(neg, NatToMag(n)))

\* the leaf values of generated responses: a negative integer, the empty
\* byte-string, a byte-string of CR and a frame prefix, and Null
Leaves == { IntOf(TRUE, 12), String(<<>>), String(<<CR, Dollar>>), Null }

RECURSIVE Trees(_, _)
RECURSIVE Forests(_, _)
\* the values of exactly n nodes over the leaves L
Trees(L, n) ==
    IF n = 1 THEN L \cup {Array(<<>>)}
    ELSE { Array(f) : f \in Forests(L, n - 1) }
\* the sequences of values of exactly n nodes in total
Forests(L, n) ==
    IF n = 0 THEN {<<>>}
    ELSE UNION { { <<v>> \o f : v \in Trees(L, m), f \in Forests(L, n - m) } : m \in 1..n }

ForestsUpTo(L, n) == UNION { Forests(L, k) : k \in 0..n }

Generated(n) ==
    { [bytes |-> EncodeAll(f), values |-> f, valid |-> TRUE] : f \in ForestsUpTo(Leaves, n) }

\* streams of the parser's tests that use simple strings, error frames,
\* null arrays and resumed integers, and a reply followed by an array
Foo == <<70, 111, 111>>
Bar == <<66, 97, 114>>
OK == <<79, 75>>
Scenarios ==
    { [bytes |-> Line(<<Star, Digit0 + 2>>) \o Line(<<Star, Digit0 + 3>>)
                   \o Line(<<Colon, Digit0 + 1>>) \o Line(<<Colon, Digit0 + 2>>)
                   \o Line(<<Colon, Digit0 + 3>>) \o Line(<<Star, Digit0 + 2>>)
                   \o Line(<<Plus>> \o Foo) \o Line(<<Minus>> \o Bar),
       values |-> << Array(<< Array(<<IntOf(FALSE, 1), IntOf(FALSE, 2), IntOf(FALSE, 3)>>),
                              Array(<<String(Foo), Error(Bar)>>) >>) >>,
       valid |-> TRUE],
      [bytes |-> Line(<<Plus>> \o OK) \o Line(<<Dollar, Digit0 + 1>>)
                   \o Line(<<Digit0>>) \o Line(<<Dollar, Minus, Digit0 + 1>>),
       values |-> << String(OK), String(<<Digit0>>), Null >>,
       valid |-> TRUE],
      [bytes |-> Line(<<Colon, Digit0 + 4, Digit0 + 1, Digit0 + 2>>)
                   \o Line(<<Colon, Digit0 + 1>>),
       values |-> << IntOf(FALSE, 412), IntOf(FALSE, 1) >>,
       valid |-> TRUE],
      [bytes |-> Line(<<Star, Digit0 + 2>>) \o Line(<<Star, Digit0 + 2>>)
                   \o Line(<<Star, Minus, Digit0 + 1>>)
                   \o Line(<<Colon, Plus, Digit0, Digit0 + 7>>)
                   \o Line(<<Plus>>) \o Line(<<Colon, Minus, Digit0>>),
       values |-> << Array(<< Array(<<Null, IntOf(FALSE, 7)>>), String(<<>>) >>),
                     IntOf(FALSE, 0) >>,
       valid |-> TRUE],
      [bytes |-> Line(<<Colon, Digit0 + 1>>) \o Line(<<Star, Digit0 + 1>>)
                   \o Line(<<Dollar, Digit0 + 1>>) \o Line(<<Digit0>>),
       values |-> << IntOf(FALSE, 1), Array(<<String(<<Digit0>>)>>) >>,
       valid |-> TRUE] }

\* invalid and extreme length prefixes, an integer whose CR is followed by a
\* frame prefix, and a bulk string whose contents are followed by digits
Malformed ==
    { <<Colon, Digit0 + 1, CR, Colon>>,
      Line(<<Dollar, Digit0 + 1>>) \o <<Digit0, Digit0 + 1, Digit0>>,
      Line(<<Dollar, Minus, Digit0 + 1, Digit0, Digit0>>),
      Line(<<Star, Minus, Digit0 + 1, Digit0, Digit0>>),
      Line(<<Star, Digit0 + 1>>) \o Line(<<Dollar, Minus, Digit0 + 2>>),
      Line(<<Star>> \o I64ToString(I64(FALSE, I64MaxMag))),
      Line(<<Colon>> \o I64ToString(I64(FALSE, I64MinMag))) }

\* arrays with an element that does not parse: an invalid bulk length as the
\* only element, and a sign without digits in an array inside an array that
\* has collected an element
BrokenArrays ==
    { Line(<<Star, Digit0 + 1>>) \o Line(<<Dollar, Minus, Digit0 + 2>>),
      Line(<<Star, Digit0 + 2>>) \o Line(<<Colon, Digit0 + 1>>)
        \o Line(<<Star, Digit0 + 1>>) \o Line(<<Colon, Minus>>) }

\* every byte sequence of at most n bytes over frame prefixes, digits, CR and
\* a byte that is never part of UTF-8 text
JunkBytes == { Colon, Minus, Dollar, Star, Digit0, Digit0 + 1, CR, 255 }

RECURSIVE Junk(_)
Junk(n) ==
    IF n = 0 THEN {<<>>}
    ELSE Junk(n - 1) \cup { Append(j, b) : j \in Junk(n - 1), b \in JunkBytes }

Raw(S) == { [bytes |-> b, values |-> <<>>, valid |-> FALSE] : b \in S }

\* bulk-encoded values at the ends of the integer range and byte-strings of
\* terminators, frame prefixes, NUL and a non-UTF-8 byte
Extremes ==
    { [bytes |-> EncodeAll(f), values |-> f, valid |-> TRUE] :
        f \in { << Integer(I64(TRUE, I64MinMag)), Integer(I64(FALSE, I64MaxMag)) >>,
                << IntOf(FALSE, 0), String(<<LF, CR, LF, Colon, 0, 255>>) >>,
                << Array(<< String(<<Star, Digit0 + 1, CR, LF>>), IntOf(FALSE, 305) >>),
                   String(<<Plus>>) >> } }

Inputs ==
    Generated(MaxNodes) \cup Extremes \cup Scenarios \cup Raw(Malformed)
      \cup Raw(BrokenArrays) \cup Raw(Junk(JunkLen))

(***************************************************************************)
(* The parser driven by hand: any interleaving of feed and get_response    *)
(* over any split of the stream into chunks.                               *)
(***************************************************************************)
NoError == [e |-> "none"]

\* no command has been constructed, encoded or answered
NoCommand == [t |-> "none"]
NoRequest == [kind |-> "none"]
NoOutcome == [kind |-> "none"]
NoCall ==
    /\ debug_assertions = FALSE
    /\ call = [fn |-> "none"]
    /\ command = NoCommand
    /\ request = NoRequest
    /\ outcome = NoOutcome

ParserInit ==
    /\ buffer = <<>>
    /\ ptr = 0
    /\ state = Waiting
    /\ last = [kind |-> "New"]
    /\ outputs = <<>>
    /\ err = NoError
    /\ resumed = FALSE
    /\ discarded = 0
    /\ consumed = 0
    /\ sent = 0

Init ==
    /\ ParserInit
    /\ \E inp \in Inputs :
         /\ stream = inp.bytes
         /\ frames = inp.values
         /\ valid = inp.valid
    /\ pc = "off"
    /\ cmds = <<>>
    /\ replies = <<>>
    /\ wire = 0
    /\ chan = <<>>
    /\ srv = 0
    /\ eof = FALSE
    /\ rd = "done"
    /\ NoCall

\* the parser and its history after parser.feed(chunk) alone
FeedParser(chunk) ==
    /\ buffer' = feed(buffer, chunk)
    /\ sent' = sent + Len(chunk)
    /\ last' = [kind |-> "Fed"]
    /\ UNCHANGED <<ptr, state, outputs, err, resumed, discarded, consumed>>

\* the parser and its history after parser.get_response() has computed r
\* on the buffer buf, n bytes of which were fed just before
PullParser(buf, n, r) ==
    /\ buffer' = r.buffer
    /\ ptr' = r.ptr
    /\ state' = r.state
    /\ last' = r.res
    /\ outputs' = IF r.res.kind = "Some" THEN Append(outputs, r.res.value) ELSE outputs
    /\ err' = IF r.res.kind = "Err" /\ err = NoError THEN r.res.error ELSE err
    /\ resumed' = (resumed \/ (r.res.kind = "None" /\ r.state.tag # "Waiting"))
    /\ discarded' = discarded + (Len(buf) - Len(r.buffer))
    /\ consumed' = consumed + (r.parsed - ptr)
    /\ sent' = sent + n

Feed(k) ==
    /\ last.kind # "Panic"
    /\ sent + k <= Len(stream)
    /\ FeedParser(SubSeq(stream, sent + 1, sent + k))
    /\ UNCHANGED <<callVars, streamVars, pipeVars, connVars>>

Pull ==
    /\ last.kind # "Panic"
    /\ PullParser(buffer, 0, get_response(buffer, ptr, state))
    /\ UNCHANGED <<callVars, streamVars, pipeVars, connVars>>

Next ==
    \/ \E k \in 0..Len(stream) : Feed(k)
    \/ Pull

Spec == Init /\ [][Next]_vars

(***************************************************************************)
(* Conversions of a RedisResult (src/src/types/redis_values.rs) and the    *)
(* convert_redis_result of three commands.  A conversion returns Ok, Err   *)
(* or panics.                                                              *)
(***************************************************************************)
Ok(value) == [kind |-> "Ok", value |-> value]
Fail(error) == [kind |-> "Err", error |-> error]

None == [t |-> "None"]
Some(v) == [t |-> "Some", v |-> v]

NoConversionTypeMatch(value) == [e |-> "NoConversionTypeMatch", value |-> value]
RedisReturnedError(error) == [e |-> "RedisReturnedError", error |-> error]

\* RedisErrorValue::kind and ::message: contents.splitn(2, ' ') yields the
\* text before the first space and, when there is a space, the text after it
FirstSpace(contents) ==
    IF \E i \in DOMAIN contents : contents[i] = Space
      THEN CHOOSE i \in DOMAIN contents :
             /\ contents[i] = Space
             /\ \A j \in 1..(i - 1) : contents[j] # Space
    ELSE 0
splitn(contents) ==
    IF FirstSpace(contents) = 0 THEN <<contents>>
    ELSE << SubSeq(contents, 1, FirstSpace(contents) - 1),
            SubSeq(contents, FirstSpace(contents) + 1, Len(contents)) >>
RedisErrorValue_kind_WholeContents(contents) == Some(contents)
RedisErrorValue_kind(contents) == Some(splitn(contents)[1])
RedisErrorValue_message(contents) ==
    IF Len(splitn(contents)) < 2 THEN None ELSE Some(splitn(contents)[2])

\* impl TryFrom<RedisResult> for Option<RedisValue>
RECURSIVE OptionRedisValue(_)
RECURSIVE CollectOptions(_, _)
OptionRedisValue(r) ==
    CASE r.t = "String" -> Ok(Some([t |-> "String", bytes |-> r.bytes]))
      [] r.t = "Integer" -> Ok(Some([t |-> "Integer", int |-> r.int]))
      [] r.t = "Array" ->
           LET c == CollectOptions(r.elements, <<>>)
           IN  IF c.kind = "Ok" THEN Ok(Some([t |-> "Array", elements |-> c.value]))
               ELSE c
      [] r.t = "Null" -> Ok(None)
      [] r.t = "Error" -> Fail(RedisReturnedError(r.contents))
\* .map(Option::try_from).collect::<Result<_, _>>(): the first Err ends it
CollectOptions(rs, acc) ==
    IF rs = <<>> THEN Ok(acc)
    ELSE LET c == OptionRedisValue(Head(rs))
         IN  IF c.kind = "Ok" THEN CollectOptions(Tail(rs), Append(acc, c.value))
             ELSE c

\* the fallback arm of create_try_from_impl!: Option::try_from(value).unwrap()
NoMatchUnwrap(r) ==
    LET c == OptionRedisValue(r)
    IN  IF c.kind = "Ok" THEN Fail(NoConversionTypeMatch(c.value)) ELSE Panic

\* the fallback arm written with `?`: result.try_into()?
NoMatchTry(r) ==
    LET c == OptionRedisValue(r)
    IN  IF c.kind = "Ok" THEN Fail(NoConversionTypeMatch(c.value)) ELSE c

\* create_try_from_impl! { i64; ... }
TryFromI64_NullIsZero(r) ==
    CASE r.t = "Integer" -> Ok(r.int)
      [] r.t = "Null" -> Ok(Zero)
      [] r.t = "Error" -> Fail(RedisReturnedError(r.contents))
      [] OTHER -> NoMatchUnwrap(r)
TryFromI64(r) ==
    CASE r.t = "Integer" -> Ok(r.int)
      [] r.t = "Error" -> Fail(RedisReturnedError(r.contents))
      [] OTHER -> NoMatchUnwrap(r)

\* impl TryFrom<RedisResult> for Option<Vec<u8>>
TryFromOptionBytes(r) ==
    CASE r.t = "String" -> Ok(Some(r.bytes))
      [] r.t = "Null" -> Ok(None)
      [] r.t = "Error" -> Fail(RedisReturnedError(r.contents))
      [] OTHER -> NoMatchUnwrap(r)

\* SetBit::convert_redis_result
SetBitConvert(r) ==
    CASE r = Integer(I64(FALSE, <<1>>)) -> Ok(TRUE)
      [] r = Integer(Zero) -> Ok(FALSE)
      [] r.t = "Error" -> Fail(RedisReturnedError(r.contents))
      [] OTHER -> NoMatchTry(r)

\* the commands of the pipeline runs: incr(key), get::<Vec<u8>>(key) and
\* setbit(key, offset, bit)
Commands == {"Increment", "Get", "SetBit"}

convert_redis_result(cmd, r) ==
    CASE cmd = "Increment" -> TryFromI64(r)
      [] cmd = "Get" -> TryFromOptionBytes(r)
      [] cmd = "SetBit" -> SetBitConvert(r)

(***************************************************************************)
(* The pipeline (sans_io::Client) and the blocking client around it.       *)
(***************************************************************************)
\* RedisError
ConversionError(value) == [e |-> "ConversionError", value |-> value]
ProtocolParseError(error) == [e |-> "ProtocolParseError", error |-> error]
ConnectionError(error) == [e |-> "ConnectionError", error |-> error]
InternalConnectionError == [e |-> "InternalConnectionError"]
StringParseError == [e |-> "StringParseError"]

\* the items of the inbound channel, IoResult<Vec<u8>>
OkChunk(bytes) == [ok |-> TRUE, bytes |-> bytes]
ErrChunk(error) == [ok |-> FALSE, error |-> error]

\* the io::Error of a failed socket read
IoError == "ConnectionReset"

\* the .map_err of Client::get_response
MapConversionError(c) ==
    IF c.kind # "Err" THEN c
    ELSE IF c.error.e = "NoConversionTypeMatch" THEN Fail(ConversionError(c.error.value))
    ELSE IF c.error.e = "CannotParseStringResponse" THEN Fail(StringParseError)
    ELSE c

\* what Client::get_response returns for the command once the parser has
\* returned res, or "recv" when it goes on to receive from the channel
Respond(cmd, res) ==
    CASE res.kind = "Some" -> MapConversionError(convert_redis_result(cmd, res.value))
      [] res.kind = "Err" -> Fail(ProtocolParseError(res.error))
      [] res.kind = "Panic" -> Panic
      [] res.kind = "None" -> [kind |-> "recv"]

\* the bytes of the responses the server owes: one response frame for each
\* command written so far
Emitted == Len(EncodeAll(SubSeq(frames, 1, Len(cmds))))

\* the leaf values of the server's responses: the integer 1, the empty
\* byte-string, a byte-string holding a frame terminator, Null and the
\* server error "E x"
Responses == { IntOf(FALSE, 1), String(<<>>), String(<<CR, LF>>), Null,
               Error(<<69, Space, 120>>) }

RECURSIVE Parsable(_)
Parsable(v) ==
    /\ v.t # "Unparsable"
    /\ v.t = "Array" => \A i \in 1..Len(v.elements) : Parsable(v.elements[i])

\* a client just connected, the server's responses drawn from the values
\* of at most PipeNodes nodes over the leaves L
Connected(L) ==
    /\ ParserInit
    /\ \E f \in ForestsUpTo(L, PipeNodes) :
         /\ frames = f
         /\ stream = EncodeAll(f)
         /\ valid = \A i \in 1..Len(f) : Parsable(f[i])
    /\ pc = "idle"
    /\ cmds = <<>>
    /\ replies = <<>>
    /\ wire = 0
    /\ chan = <<>>
    /\ srv = 0
    /\ eof = FALSE
    /\ rd = "run"
    /\ NoCall

PipeInit == Connected(Responses)

\* the responses of the runs with connection faults: the integer 1, a
\* byte-string that is sent as three lines, and a frame that does not parse
FaultResponses == { IntOf(FALSE, 1), String(<<CR, LF>>), Unparsable }

FaultInit == Connected(FaultResponses)

\* the responses of the runs of the blocking client: the empty byte-string,
\* which is returned before its last line is read, and a byte-string that
\* the reader sends as three lines
SyncResponses == { String(<<>>), String(<<CR, LF>>) }

SyncInit == Connected(SyncResponses)

\* a round that empties the buffer and resets the cursor when the command's
\* conversion of the value fails
AwaitRound_ResetsOnFailure(cmd, buf, n, r) ==
    LET reply == Respond(cmd, r.res)
        failed == r.res.kind = "Some" /\ reply.kind = "Err"
    IN  /\ PullParser(buf, n, IF failed THEN [r EXCEPT !.buffer = <<>>, !.ptr = 0] ELSE r)
        /\ replies' = IF reply.kind = "recv" THEN replies ELSE Append(replies, reply)
        /\ pc' = CASE reply.kind = "recv" -> "recv"
                   [] reply.kind = "Panic" -> "dead"
                   [] OTHER -> "idle"

\* one round of the loop of Client::get_response for the awaited command:
\* parser.get_response() computed r on the buffer buf, n bytes of which were
\* fed just before
AwaitRound(cmd, buf, n, r) ==
    LET reply == Respond(cmd, r.res)
    IN  /\ PullParser(buf, n, r)
        /\ replies' = IF reply.kind = "recv" THEN replies ELSE Append(replies, reply)
        /\ pc' = CASE reply.kind = "recv" -> "recv"
                   [] reply.kind = "Panic" -> "dead"
                   [] OTHER -> "idle"

\* Client::issue(cmd): write and flush the frame, then await the response
\* up to the first channel receive
Issue(cmd) ==
    /\ pc = "idle"
    /\ Len(cmds) < Len(frames)
    /\ cmds' = Append(cmds, cmd)
    /\ AwaitRound(cmd, buffer, 0, get_response(buffer, ptr, state))
    /\ UNCHANGED <<callVars, streamVars, wire, chan, connVars>>

\* a receive that takes the chunk off the channel and does not feed it
RecvChunk_Discards ==
    /\ chan # <<>>
    /\ Head(chan).ok
    /\ chan' = Tail(chan)
    /\ UNCHANGED <<parserVars, historyVars, sent, replies, pc>>

\* recv() returned Ok(Ok(bytes)): feed the chunk and go round the loop again
RecvChunk ==
    /\ chan # <<>>
    /\ Head(chan).ok
    /\ chan' = Tail(chan)
    /\ AwaitRound(cmds[Len(cmds)], feed(buffer, Head(chan).bytes), Len(Head(chan).bytes),
                  get_response(feed(buffer, Head(chan).bytes), ptr, state))

\* an Err chunk reported as a closed channel
RecvError_AsClosed ==
    /\ chan # <<>>
    /\ ~Head(chan).ok
    /\ chan' = Tail(chan)
    /\ replies' = Append(replies, Fail(InternalConnectionError))
    /\ pc' = "idle"
    /\ UNCHANGED <<parserVars, historyVars, sent>>

\* recv() returned Ok(Err(error)): the second `?` returns ConnectionError
RecvError ==
    /\ chan # <<>>
    /\ ~Head(chan).ok
    /\ chan' = Tail(chan)
    /\ replies' = Append(replies, Fail(ConnectionError(Head(chan).error)))
    /\ pc' = "idle"
    /\ UNCHANGED <<parserVars, historyVars, sent>>

\* a closed channel reported as such only the first time
RecvClosed_ReportsOnce ==
    /\ chan = <<>>
    /\ rd # "run"
    /\ replies' = Append(replies,
                         IF \E i \in 1..Len(replies) : replies[i] = Fail(InternalConnectionError)
                           THEN Fail(ConnectionError(IoError))
                           ELSE Fail(InternalConnectionError))
    /\ pc' = "idle"
    /\ UNCHANGED <<parserVars, historyVars, sent, chan>>

\* recv() returned Err(RecvError), the channel being empty and its sending
\* half dropped: the first `?` returns InternalConnectionError
RecvClosed ==
    /\ chan = <<>>
    /\ rd # "run"
    /\ replies' = Append(replies, Fail(InternalConnectionError))
    /\ pc' = "idle"
    /\ UNCHANGED <<parserVars, historyVars, sent, chan>>

\* the channel receive of Client::get_response returns
Receive ==
    /\ pc = "recv"
    /\ (RecvChunk \/ RecvError \/ RecvClosed)
    /\ UNCHANGED <<callVars, streamVars, cmds, wire, connVars>>

\* the server writes the response frames of the commands it has been sent
ServerReply ==
    /\ ~eof
    /\ srv < Emitted
    /\ srv' = Emitted
    /\ UNCHANGED <<callVars, parserVars, historyVars, streamVars, sent, pipeVars, eof, rd>>

\* the server closes the connection, having written n bytes in all
ServerClose(n) ==
    /\ ~eof
    /\ n >= srv
    /\ n <= Emitted
    /\ srv' = n
    /\ eof' = TRUE
    /\ UNCHANGED <<callVars, parserVars, historyVars, streamVars, sent, pipeVars, rd>>

\* the number of bytes up to and including the next LF on the socket, 0 when
\* there is none
ReadUntilLF ==
    LET ends == { k \in 1..(srv - wire) : stream[wire + k] = LF }
    IN  IF ends = {} THEN 0 ELSE CHOOSE k \in ends : \A j \in ends : k <= j

\* reader.read_until(b'\n', &mut buffer) returning Ok(n): a line, at the end
\* of the stream what is left of it (Ok(0) when nothing is); -1 while the
\* read blocks
ReadUntil ==
    IF ReadUntilLF > 0 THEN ReadUntilLF
    ELSE IF eof THEN srv - wire
    ELSE 0 - 1

\* a reader that goes on reading after a failed send
ReaderRead_IgnoresFailedSend ==
    /\ rd = "run"
    /\ ReadUntil >= 0
    /\ Len(chan) < MaxChan
    /\ wire' = wire + ReadUntil
    /\ rd' = rd
    /\ chan' = IF pc = "dropped" THEN chan
               ELSE Append(chan, OkChunk(SubSeq(stream, wire + 1, wire + ReadUntil)))
    /\ UNCHANGED <<callVars, parserVars, historyVars, streamVars, sent, pc, cmds, replies, srv, eof>>

\* one round of the reader thread's loop in which read_until returns Ok(_):
\* send the chunk, and break when the send fails
ReaderRead ==
    /\ rd = "run"
    /\ ReadUntil >= 0
    /\ Len(chan) < MaxChan
    /\ wire' = wire + ReadUntil
    /\ IF pc = "dropped"
         THEN rd' = "hungup" /\ chan' = chan
         ELSE /\ rd' = rd
              /\ chan' = Append(chan, OkChunk(SubSeq(stream, wire + 1, wire + ReadUntil)))
    /\ UNCHANGED <<callVars, parserVars, historyVars, streamVars, sent, pc, cmds, replies, srv, eof>>

\* one round of the reader thread's loop in which read_until returns
\* Err(err): send(Err(err)).unwrap(), then break
ReaderFail ==
    /\ rd = "run"
    /\ Len(chan) < MaxChan
    /\ IF pc = "dropped"
         THEN rd' = "panic" /\ chan' = chan
         ELSE rd' = "done" /\ chan' = Append(chan, ErrChunk(IoError))
    /\ UNCHANGED <<callVars, parserVars, historyVars, streamVars, sent, pc, cmds, replies, wire,
                   srv, eof>>

\* the blocking client is dropped between two calls, and with it the
\* pipeline and the receiving half of the channel
DropClient ==
    /\ pc = "idle"
    /\ pc' = "dropped"
    /\ chan' = <<>>
    /\ UNCHANGED <<callVars, parserVars, historyVars, streamVars, sent, cmds, replies, wire, connVars>>

\* the sending half of the inbound channel takes the next k bytes off the
\* socket and sends them as one chunk: the reader thread of the blocking
\* client sends a line, another driver of the pipeline any chunk
ReaderSend(k) ==
    /\ rd = "run"
    /\ k >= 1
    /\ wire + k <= srv
    /\ Len(chan) < MaxChan
    /\ chan' = Append(chan, OkChunk(SubSeq(stream, wire + 1, wire + k)))
    /\ wire' = wire + k
    /\ UNCHANGED <<callVars, parserVars, historyVars, streamVars, sent, pc, cmds, replies, connVars>>

\* the holder of the Sender that Client::new returns sends Err(error) and
\* keeps the Sender
SendErr ==
    /\ rd = "run"
    /\ Len(chan) < MaxChan
    /\ chan' = Append(chan, ErrChunk(IoError))
    /\ UNCHANGED <<callVars, parserVars, historyVars, streamVars, sent, pc, cmds, replies, wire,
                   connVars>>

\* the holder of the Sender drops it
DropSender ==
    /\ rd = "run"
    /\ rd' = "done"
    /\ UNCHANGED <<callVars, parserVars, historyVars, streamVars, sent, pipeVars, srv, eof>>

\* the pipeline on a connection without faults, the stream split into
\* chunks in every way
PipeNext ==
    \/ \E cmd \in Commands : Issue(cmd)
    \/ Receive
    \/ ServerReply
    \/ \E k \in (1..MaxChunk) \cup {ReadUntilLF, srv - wire} : ReaderSend(k)

PipeSpec == PipeInit /\ [][PipeNext]_vars

\* the pipeline driven through its Sender by any transport, which sends
\* lines or all it has, may report failed reads and may drop the Sender
SansIoNext ==
    \/ \E cmd \in Commands : Issue(cmd)
    \/ Receive
    \/ ServerReply
    \/ \E k \in {ReadUntilLF, srv - wire} : ReaderSend(k)
    \/ SendErr
    \/ DropSender

SansIoSpec == FaultInit /\ [][SansIoNext]_vars

\* the blocking client: the pipeline driven by its reader thread
SyncNext ==
    \/ \E cmd \in Commands : Issue(cmd)
    \/ Receive
    \/ ServerReply
    \/ \E n \in srv..Emitted : ServerClose(n)
    \/ ReaderRead
    \/ ReaderFail
    \/ DropClient

SyncSpec == SyncInit /\ [][SyncNext]_vars

\* the steps of Receive, told by what they do to the channel and to the
\* position of the client: a step of SyncNext is one of them exactly when
\* it is a step of Receive, and they are enabled exactly when Receive is
ReceivedItem ==
    /\ pc = "recv"
    /\ chan # <<>>
    /\ chan' = Tail(chan)

ReceivedClosure ==
    /\ pc = "recv"
    /\ chan = <<>>
    /\ rd # "run"
    /\ pc' = "idle"

\* the reader thread and the calling thread both keep running
FairSyncSpec ==
    /\ SyncSpec
    /\ WF_vars(ReaderRead)
    /\ WF_chan(ReceivedItem)
    /\ WF_pc(ReceivedClosure)

(***************************************************************************)
(* The command layer (src/src/types/commands/*.rs, src/src/types/command.rs *)
(* and the encoding macros of src/src/types/resp_macros.rs).  A command is  *)
(* a record of the fields of its struct; text is kept as its UTF-8 bytes.   *)
(***************************************************************************)
\* the bound of every list of a command: the pairs of mset, the keys of mget,
\* the further sources of bitop and the arguments of Command
MaxItems == 2

CRLF == <<CR, LF>>

\* the command names and tags written into the frames
SET_ == <<83, 69, 84>>
PX_ == <<80, 88>>
XX_ == <<88, 88>>
NX_ == <<78, 88>>
MSET_ == <<77, 83, 69, 84>>
MSETNX_ == <<77, 83, 69, 84, 78, 88>>
GET_ == <<71, 69, 84>>
MGET_ == <<77, 71, 69, 84>>
INCR_ == <<73, 78, 67, 82>>
DECR_ == <<68, 69, 67, 82>>
INCRBY_ == <<73, 78, 67, 82, 66, 89>>
DECRBY_ == <<68, 69, 67, 82, 66, 89>>
INCRBYFLOAT_ == <<73, 78, 67, 82, 66, 89, 70, 76, 79, 65, 84>>
SETBIT_ == <<83, 69, 84, 66, 73, 84>>
GETBIT_ == <<71, 69, 84, 66, 73, 84>>
BITCOUNT_ == <<66, 73, 84, 67, 79, 85, 78, 84>>
BITPOS_ == <<66, 73, 84, 80, 79, 83>>
BITOP_ == <<66, 73, 84, 79, 80>>
NOT_ == <<78, 79, 84>>
AND_ == <<65, 78, 68>>
OR_ == <<79, 82>>
XOR_ == <<88, 79, 82>>
PING_ == <<80, 73, 78, 71>>
ECHO_ == <<69, 67, 72, 79>>
AUTH_ == <<65, 85, 84, 72>>
PONG_ == <<80, 79, 78, 71>>

\* std::time::Duration: whole seconds and the nanoseconds below a second
Duration(secs, nanos) == [secs |-> secs, nanos |-> nanos]
from_millis(ms) == Duration(ms \div 1000, (ms % 1000) * 1000000)
from_micros(us) == Duration(us \div 1000000, (us % 1000000) * 1000)
from_secs(secs) == Duration(secs, 0)
as_millis(d) == d.secs * 1000 + d.nanos \div 1000000

\* utils::number_length: the loop counts the divisions by ten
RECURSIVE number_length_loop(_, _)
number_length_loop(number, base) ==
    IF number > 0 THEN number_length_loop(number \div 10, base + 1) ELSE base
number_length(number) ==
    IF number = 0 THEN 1 ELSE number_length_loop(number, 0)

\* <u128 as Display>::fmt and usize::to_string
to_string(n) == NatToMagBytes(n)

\* f64 values are kept as a sign and the text Display prints for the
\* magnitude; -x changes the sign
F64(neg, text) == [neg |-> neg, text |-> text]
F64ToString(x) == (IF x.neg THEN <<Minus>> ELSE <<>>) \o x.text
NegF64(x) == F64(~x.neg, x.text)

\* -x on an i64: i64::MIN has no negation; a build with overflow checks
\* panics there and a build without them wraps around to i64::MIN
I64Min == I64(TRUE, I64MinMag)
I64Max == I64(FALSE, I64MaxMag)
NegI64(x, checks) ==
    IF x = I64Min THEN (IF checks THEN Panic ELSE I64Min)
    ELSE IF x = Zero THEN Zero
    ELSE I64(~x.neg, x.mag)

\* A text too long to be written out byte by byte is written as one number
\* above every byte: Run(n) stands for a text of n bytes.  String_len is
\* the number of bytes of a text (String::len).
Run(n) == <<256 + n>>
WrittenOut(text) == text = <<>> \/ text[1] < 256
String_len(text) == IF WrittenOut(text) THEN Len(text) ELSE text[1] - 256

\* utils::validate_key: the key, or the panic "key is too large"
validate_key(key) ==
    IF String_len(key) > 512 * 1000 * 1000 THEN Panic ELSE Ok(key)

\* the constructors; set and get alone validate the key
set(key, value) ==
    LET k == validate_key(key)
    IN  IF k = Panic THEN Panic
        ELSE [t |-> "Set", key |-> k.value, expiry |-> None, value |-> value]
mset == [t |-> "SetMany", key_value_pairs |-> <<>>]
get(key, T) ==
    LET k == validate_key(key)
    IN  IF k = Panic THEN Panic ELSE [t |-> "Get", key |-> k.value, T |-> T]
mget(T) == [t |-> "GetMultipleList", keys |-> <<>>, T |-> T]
Increment(key, by) == [t |-> "Increment", key |-> key, by |-> by]
incr(key) == Increment(key, I64(FALSE, <<1>>))
incr_by(key, by) == Increment(key, by)
decr(key) == Increment(key, MinusOne)
decr_by(key, by, checks) ==
    LET n == NegI64(by, checks)
    IN  IF n = Panic THEN Panic ELSE Increment(key, n)
incr_by_float(key, by) == [t |-> "FloatIncrement", key |-> key, by |-> by]
decr_by_float(key, by) == [t |-> "FloatIncrement", key |-> key, by |-> NegF64(by)]
setbit(key, offset, value) ==
    [t |-> "SetBit", key |-> key, offset |-> offset, value |-> value]
getbit(key, offset) == [t |-> "GetBit", key |-> key, offset |-> offset]
bitcount(key) == [t |-> "BitCount", key |-> key, indices |-> None]
bitpos(key, bit) == [t |-> "BitPos", key |-> key, bit |-> bit, range |-> None]
bitop_not(destination, source) ==
    [t |-> "BitOpUnary", destination |-> destination, source |-> source]
bitop_nary(op, destination, source) ==
    [t |-> "BitOpNAry", command |-> op, destination |-> destination,
     sources |-> <<source>>]
ping == [t |-> "Ping"]
echo(text) == [t |-> "Echo", text |-> text]
Command_cmd(name) == [t |-> "Command", name |-> name, args |-> <<>>]

\* the builder methods
Set_with_expiry(c, duration) == [c EXCEPT !.expiry = Some(duration)]
SetIfExists_with_expiry(c, duration, debug) ==
    IF debug /\ duration = from_millis(0) THEN Panic
    ELSE [c EXCEPT !.expiry = Some(duration)]
if_exists(c, exists) ==
    [t |-> "SetIfExists", key |-> c.key, expiry |-> c.expiry, value |-> c.value,
     exists |-> exists]
add(c, key, value) ==
    [c EXCEPT !.key_value_pairs = Append(@, <<key, value>>)]
if_none_exists(c) ==
    [t |-> "SetManyIfExists", key_value_pairs |-> c.key_value_pairs]
with_default(c, default) ==
    [t |-> "GetWithDefault", get_command |-> c, default |-> default]
GetMultipleList_key(c, k) == [c EXCEPT !.keys = Append(@, k)]
GetMultipleList_with_keys(c, keys) == [c EXCEPT !.keys = keys]
\* in_range of a Range (start, end), a RangeInclusive (start, end - 1) and,
\* for bitpos alone, a RangeFrom (start)
BitCount_in_range(c, bounds) == [c EXCEPT !.indices = Some(bounds)]
BitPos_in_range(c, bounds) == [c EXCEPT !.range = Some(bounds)]
with_source(c, source) == [c EXCEPT !.sources = Append(@, source)]
with_arg(c, argument) == [c EXCEPT !.args = Append(@, argument)]

\* the pieces of a frame: "*<n>\r\n", a bulk string whose length is written
\* in the format string ("$3\r\nSET\r\n"), and one whose length is a format
\* argument ("${key_length}\r\n{key}\r\n")
Header(n) == <<Star>> \o to_string(n) \o CRLF
Fixed(len, bytes) == <<Dollar, Digit0 + len>> \o CRLF \o bytes \o CRLF
Field(len, bytes) == <<Dollar>> \o to_string(len) \o CRLF \o bytes \o CRLF

\* insert_bytes_into_vec!
insert_bytes_into_vec(v, input) ==
    v \o <<Dollar>> \o to_string(Len(input)) \o CRLF \o input \o CRLF

RECURSIVE InsertAll(_, _)
InsertAll(v, items) ==
    IF items = <<>> THEN v
    ELSE InsertAll(insert_bytes_into_vec(v, Head(items)), Tail(items))

\* resp_bytes!: the count of the items, then each item
resp_bytes(items) == InsertAll(<<Star>> \o to_string(Len(items)) \o CRLF, items)

\* the "1" or "0" of a bit
BitText(bit) == IF bit THEN <<Digit0 + 1>> ELSE <<Digit0>>

\* what get_bytes returns
Bytes(bytes) == [kind |-> "Bytes", bytes |-> bytes]

\* the loops of SetMany::get_bytes and GetMultipleList::get_bytes
RECURSIVE PushPairs(_, _)
PushPairs(header, pairs) ==
    IF pairs = <<>> THEN header
    ELSE PushPairs(header \o Field(Len(Head(pairs)[1]), Head(pairs)[1])
                          \o Field(Len(Head(pairs)[2]), Head(pairs)[2]),
                   Tail(pairs))
RECURSIVE PushKeys(_, _)
PushKeys(message, keys) ==
    IF keys = <<>> THEN message
    ELSE PushKeys(message \o Field(Len(Head(keys)), Head(keys)), Tail(keys))

Set_get_bytes(c) ==
    IF c.expiry # None
      THEN Header(5) \o Fixed(3, SET_) \o Field(Len(c.key), c.key)
           \o Field(Len(c.value), c.value) \o Fixed(2, PX_)
           \o Field(number_length(as_millis(c.expiry.v)), to_string(as_millis(c.expiry.v)))
    ELSE Header(3) \o Fixed(3, SET_) \o Field(Len(c.key), c.key)
         \o Field(Len(c.value), c.value)

SetIfExists_get_bytes(c) ==
    LET exists_tag == IF c.exists THEN XX_ ELSE NX_
    IN  IF c.expiry # None
          THEN Header(6) \o Fixed(3, SET_) \o Field(Len(c.key), c.key)
               \o Field(Len(c.value), c.value) \o Fixed(2, PX_)
               \o Field(number_length(as_millis(c.expiry.v)),
                        to_string(as_millis(c.expiry.v)))
               \o Fixed(2, exists_tag)
        ELSE Header(4) \o Fixed(3, SET_) \o Field(Len(c.key), c.key)
             \o Field(Len(c.value), c.value) \o Fixed(2, exists_tag)

SetMany_get_bytes(c) ==
    PushPairs(Header(Len(c.key_value_pairs) * 2 + 1) \o Fixed(4, MSET_),
              c.key_value_pairs)

SetManyIfExists_get_bytes(c) ==
    PushPairs(Header(Len(c.key_value_pairs) * 2 + 1) \o Fixed(6, MSETNX_),
              c.key_value_pairs)

Get_get_bytes(c) == Header(2) \o Fixed(3, GET_) \o Field(Len(c.key), c.key)

GetMultipleList_get_bytes(c) ==
    PushKeys(Header(Len(c.keys) + 1) \o Fixed(4, MGET_), c.keys)

\* Increment::get_bytes: -self.by in the last arm overflows for i64::MIN
Increment_get_bytes(c, checks) ==
    IF c.by = I64(FALSE, <<1>>) THEN Bytes(resp_bytes(<<INCR_, c.key>>))
    ELSE IF c.by = MinusOne THEN Bytes(resp_bytes(<<DECR_, c.key>>))
    ELSE IF ~c.by.neg THEN Bytes(resp_bytes(<<INCRBY_, c.key, I64ToString(c.by)>>))
    ELSE LET n == NegI64(c.by, checks)
         IN  IF n = Panic THEN Panic
             ELSE Bytes(resp_bytes(<<DECRBY_, c.key, I64ToString(n)>>))

BitCount_get_bytes(c) ==
    IF c.indices # None
      THEN resp_bytes(<<BITCOUNT_, c.key, I64ToString(c.indices.v[1]),
                        I64ToString(c.indices.v[2])>>)
    ELSE resp_bytes(<<BITCOUNT_, c.key>>)

BitPos_get_bytes(c) ==
    IF c.range # None /\ c.range.v[2] # None
      THEN resp_bytes(<<BITPOS_, c.key, BitText(c.bit), I64ToString(c.range.v[1]),
                        I64ToString(c.range.v[2].v)>>)
    ELSE IF c.range # None
      THEN resp_bytes(<<BITPOS_, c.key, BitText(c.bit), I64ToString(c.range.v[1])>>)
    ELSE resp_bytes(<<BITPOS_, c.key, BitText(c.bit)>>)

BitOpNAry_get_bytes(c) ==
    InsertAll(<<Star>> \o to_string(3 + Len(c.sources)) \o CRLF,
              <<BITOP_, c.command, c.destination>> \o c.sources)

\* Command::into_bytes: the name and the arguments separated by spaces
RECURSIVE PushArgs(_, _)
PushArgs(result, args) ==
    IF args = <<>> THEN result
    ELSE PushArgs(result \o <<Space>> \o Head(args), Tail(args))

Command_into_bytes(c) == PushArgs(c.name, c.args) \o CRLF

get_bytes(c, checks) ==
    CASE c.t = "Set" -> Bytes(Set_get_bytes(c))
      [] c.t = "SetIfExists" -> Bytes(SetIfExists_get_bytes(c))
      [] c.t = "SetMany" -> Bytes(SetMany_get_bytes(c))
      [] c.t = "SetManyIfExists" -> Bytes(SetManyIfExists_get_bytes(c))
      [] c.t = "Get" -> Bytes(Get_get_bytes(c))
      [] c.t = "GetWithDefault" -> Bytes(Get_get_bytes(c.get_command))
      [] c.t = "GetMultipleList" -> Bytes(GetMultipleList_get_bytes(c))
      [] c.t = "Increment" -> Increment_get_bytes(c, checks)
      [] c.t = "FloatIncrement" ->
           Bytes(resp_bytes(<<INCRBYFLOAT_, c.key, F64ToString(c.by)>>))
      [] c.t = "SetBit" ->
           Bytes(resp_bytes(<<SETBIT_, c.key, to_string(c.offset), BitText(c.value)>>))
      [] c.t = "GetBit" -> Bytes(resp_bytes(<<GETBIT_, c.key, to_string(c.offset)>>))
      [] c.t = "BitCount" -> Bytes(BitCount_get_bytes(c))
      [] c.t = "BitPos" -> Bytes(BitPos_get_bytes(c))
      [] c.t = "BitOpUnary" ->
           Bytes(resp_bytes(<<BITOP_, NOT_, c.destination, c.source>>))
      [] c.t = "BitOpNAry" -> Bytes(BitOpNAry_get_bytes(c))
      [] c.t = "Ping" -> Bytes(resp_bytes(<<PING_>>))
      [] c.t = "Echo" -> Bytes(resp_bytes(<<ECHO_, c.text>>))
      [] c.t = "Command" -> Bytes(Command_into_bytes(c))

(***************************************************************************)
(* The conversions of the commands' declared outputs                       *)
(* (src/src/types/redis_values.rs) and each command's convert_redis_result.*)
(***************************************************************************)
InvalidUtf8String == [e |-> "InvalidUtf8String"]
CannotParseStringResponse == [e |-> "CannotParseStringResponse"]
Unit == [t |-> "Unit"]

\* impl TryFrom<RedisResult> for ()
TryFromUnit_AcceptsAll(r) == Ok(Unit)
TryFromUnit(r) ==
    CASE r.t = "Error" -> Fail(RedisReturnedError(r.contents))
      [] OTHER -> Ok(Unit)

\* impl TryFrom<RedisResult> for Option<String>
TryFromOptionString(r) ==
    CASE r.t = "Null" -> Ok(None)
      [] r.t = "String" ->
           IF from_utf8(r.bytes) THEN Ok(Some(r.bytes)) ELSE Fail(InvalidUtf8String)
      [] r.t = "Error" -> Fail(RedisReturnedError(r.contents))
      [] OTHER -> NoMatchUnwrap(r)

\* the conversion to String that Echo declares: a byte-string that is valid
\* UTF-8 converts, a server error is returned as it is, anything else does
\* not match
TryFromString(r) ==
    CASE r.t = "String" ->
           IF from_utf8(r.bytes) THEN Ok(r.bytes) ELSE Fail(InvalidUtf8String)
      [] r.t = "Error" -> Fail(RedisReturnedError(r.contents))
      [] OTHER -> NoMatchTry(r)

\* String::from_utf8(text)?.parse()? for an i64
ParseTextI64(text) ==
    IF ~from_utf8(text) THEN Fail(InvalidUtf8String)
    ELSE IF ~ParseI64(text).ok THEN Fail(CannotParseStringResponse)
    ELSE Ok(ParseI64(text).int)

\* create_try_from_impl! { Option<i64>; ... }
TryFromOptionI64(r) ==
    CASE r.t = "Null" -> Ok(None)
      [] r.t = "Integer" -> Ok(Some(r.int))
      [] r.t = "String" ->
           LET p == ParseTextI64(r.bytes)
           IN  IF p.kind = "Ok" THEN Ok(Some(p.value)) ELSE p
      [] r.t = "Error" -> Fail(RedisReturnedError(r.contents))
      [] OTHER -> NoMatchUnwrap(r)

\* <f64 as FromStr>::from_str on plain decimal text: an optional sign,
\* digits, and optionally a point and digits (exponents and the words inf
\* and nan, which it also accepts, are not among the texts of the model)
IsDecimal(body) ==
    /\ body # <<>>
    /\ IsDigit(body[1])
    /\ IsDigit(body[Len(body)])
    /\ \A i \in 1..Len(body) : IsDigit(body[i]) \/ body[i] = 46
    /\ Cardinality({ i \in 1..Len(body) : body[i] = 46 }) <= 1
ParseF64(text) ==
    LET signed == text # <<>> /\ text[1] \in {Plus, Minus}
        body == IF signed THEN Tail(text) ELSE text
    IN  IF IsDecimal(body)
          THEN [ok |-> TRUE, value |-> F64(text[1] = Minus, body)]
        ELSE [ok |-> FALSE]

\* create_try_from_impl! { f64; ... }
TryFromF64(r) ==
    CASE r.t = "String" ->
           IF ~from_utf8(r.bytes) THEN Fail(InvalidUtf8String)
           ELSE IF ~ParseF64(r.bytes).ok THEN Fail(CannotParseStringResponse)
           ELSE Ok(ParseF64(r.bytes).value)
      [] r.t = "Error" -> Fail(RedisReturnedError(r.contents))
      [] OTHER -> NoMatchUnwrap(r)

\* RedisResult: TryInto<Option<T>> for the declared types T of get and mget
TryFromOption(T, r) ==
    CASE T = "Vec<u8>" -> TryFromOptionBytes(r)
      [] T = "String" -> TryFromOptionString(r)
      [] T = "i64" -> TryFromOptionI64(r)
      [] T = "RedisValue" -> OptionRedisValue(r)

\* results.into_iter().map(|r| r.try_into()).collect(): the first Err ends it
RECURSIVE CollectInto(_, _, _)
CollectInto(T, rs, acc) ==
    IF rs = <<>> THEN Ok(acc)
    ELSE LET c == TryFromOption(T, Head(rs))
         IN  IF c.kind = "Ok" THEN CollectInto(T, Tail(rs), Append(acc, c.value))
             ELSE c

\* SetIfExists::convert_redis_result
SetIfExistsConvert(r) ==
    CASE r.t = "Null" -> Ok(FALSE)
      [] r.t = "Error" -> Fail(RedisReturnedError(r.contents))
      [] OTHER -> Ok(TRUE)

\* SetManyIfExists::convert_redis_result
SetManyIfExistsConvert(r) ==
    CASE r = Integer(Zero) -> Ok(FALSE)
      [] r = Integer(I64(FALSE, <<1>>)) -> Ok(TRUE)
      [] r.t = "Error" -> Fail(RedisReturnedError(r.contents))
      [] OTHER -> NoMatchUnwrap(r)

\* GetWithDefault::convert_redis_result
GetWithDefaultConvert(c, r) ==
    LET intermediate == TryFromOption(c.get_command.T, r)
    IN  IF intermediate.kind # "Ok" THEN intermediate
        ELSE IF intermediate.value = None THEN Ok(c.default)
        ELSE Ok(intermediate.value.v)

\* GetMultipleList::convert_redis_result
GetMultipleListConvert(c, r) ==
    CASE r.t = "Array" -> CollectInto(c.T, r.elements, <<>>)
      [] r.t = "Error" -> Fail(RedisReturnedError(r.contents))
      [] OTHER -> NoMatchTry(r)

\* Ping::convert_redis_result
PingConvert(r) ==
    CASE r.t = "String" ->
           IF r.bytes = PONG_ THEN Ok(Unit)
           ELSE Fail(NoConversionTypeMatch(Some([t |-> "String", bytes |-> r.bytes])))
      [] r.t = "Error" -> Fail(RedisReturnedError(r.contents))
      [] OTHER -> NoMatchTry(r)

\* GetBit::convert_redis_result
GetBitConvert(r) ==
    CASE r = Integer(I64(FALSE, <<1>>)) -> Ok(TRUE)
      [] r = Integer(Zero) -> Ok(FALSE)
      [] r.t = "Error" -> Fail(RedisReturnedError(r.contents))
      [] OTHER -> NoMatchTry(r)

\* `number as u32` of a non-negative i64, as decimal digits: the low 32
\* bits (the integers of the model are below 2^32 or are i64::MAX)
AsU32(int) ==
    IF int = I64Max THEN <<4, 2, 9, 4, 9, 6, 7, 2, 9, 5>> ELSE int.mag

\* BitCount, BitOpUnary and BitOpNAry::convert_redis_result
BitCountConvert(r) ==
    CASE r.t = "Integer" /\ ~r.int.neg -> Ok(AsU32(r.int))
      [] r.t = "Error" -> Fail(RedisReturnedError(r.contents))
      [] OTHER -> NoMatchTry(r)

\* BitPos::convert_redis_result
BitPosConvert(r) ==
    CASE r.t = "Integer" /\ ~r.int.neg -> Ok(Some(AsU32(r.int)))
      [] r = Integer(MinusOne) -> Ok(None)
      [] r.t = "Error" -> Fail(RedisReturnedError(r.contents))
      [] OTHER -> NoMatchTry(r)

\* convert_redis_result of each command type
CommandConvert(c, r) ==
    CASE c.t = "Set" -> TryFromUnit(r)
      [] c.t = "SetIfExists" -> SetIfExistsConvert(r)
      [] c.t = "SetMany" -> TryFromUnit(r)
      [] c.t = "SetManyIfExists" -> SetManyIfExistsConvert(r)
      [] c.t = "Get" -> TryFromOption(c.T, r)
      [] c.t = "GetWithDefault" -> GetWithDefaultConvert(c, r)
      [] c.t = "GetMultipleList" -> GetMultipleListConvert(c, r)
      [] c.t = "Increment" -> TryFromI64(r)
      [] c.t = "FloatIncrement" -> TryFromF64(r)
      [] c.t = "SetBit" -> SetBitConvert(r)
      [] c.t = "GetBit" -> GetBitConvert(r)
      [] c.t = "BitCount" -> BitCountConvert(r)
      [] c.t = "BitPos" -> BitPosConvert(r)
      [] c.t = "BitOpUnary" -> BitCountConvert(r)
      [] c.t = "BitOpNAry" -> BitCountConvert(r)
      [] c.t = "Ping" -> PingConvert(r)
      [] c.t = "Echo" -> TryFromString(r)
      [] c.t = "Command" -> OptionRedisValue(r)

(***************************************************************************)
(* Commands constructed, built up, encoded and answered one at a time.     *)
(***************************************************************************)
MyFirstKey == <<109, 121, 45, 102, 105, 114, 115, 116, 45, 107, 101, 121>>

\* keys and values: a short one, and one whose length has two digits; the
\* empty value and a value holding a space and a frame terminator
Keys == { Foo, MyFirstKey }
Values == { <<>>, <<52, Space, 50, CR, LF>> }

\* the amounts of incr_by and decr_by
Amounts ==
    { Zero, I64(FALSE, <<1>>), MinusOne, I64(FALSE, <<2>>), I64(TRUE, <<2>>),
      I64(FALSE, <<1, 2, 0>>), I64(TRUE, <<1, 2, 0>>),
      I64Max, I64(TRUE, I64MaxMag), I64Min }

\* the amounts of incr_by_float and decr_by_float
Floats == { F64(FALSE, <<49, 46, 53>>), F64(TRUE, <<Digit0>>) }

\* the expiry times: none at all, half a millisecond, one millisecond and
\* 400 seconds
Durations == { from_millis(0), from_micros(500), from_millis(1), from_secs(400) }

\* the declared types of get and mget
Types == { "Vec<u8>", "String", "i64", "RedisValue" }

\* a key of one byte more than 512 MiB, and the keys of the builder methods
LongKey == Run(512 * 1024 * 1024 + 1)
AnyKeys == Keys \cup { LongKey }

\* the key lists given to with_keys
KeyLists == { <<>>, <<MyFirstKey, Foo>> }

Offsets == { 0, 100 }

I64FromInt(n) == IF n < 0 THEN I64(TRUE, NatToMag(0 - n)) ELSE I64(FALSE, NatToMag(n))

\* start..end, start..=end and start.. over small byte positions
Ranges ==
    [kind : {"Range", "RangeInclusive"}, start : {0, -1}, end : {0, 10}]
      \cup [kind : {"RangeFrom"}, start : {0, -1}, end : {0}]

\* RangeWithBounds::into_bounds and RangeWithLowerBound::into_bounds
into_bounds(range) ==
    CASE range.kind = "Range" -> <<I64FromInt(range.start), I64FromInt(range.end)>>
      [] range.kind = "RangeInclusive" ->
           <<I64FromInt(range.start), I64FromInt(range.end - 1)>>
into_lower_bounds(range) ==
    IF range.kind = "RangeFrom" THEN <<I64FromInt(range.start), None>>
    ELSE <<into_bounds(range)[1], Some(into_bounds(range)[2])>>

Call(fn, args) == [fn |-> fn, args |-> args]

\* the constructor calls
Calls ==
    { Call("set", <<k, v>>) : k \in Keys, v \in Values }
      \cup { Call("mset", <<>>), Call("ping", <<>>) }
      \cup { Call("get", <<k, T>>) : k \in {Foo}, T \in Types }
      \cup { Call("mget", <<T>>) : T \in Types }
      \cup { Call(fn, <<k>>) : fn \in {"incr", "decr", "bitcount"}, k \in Keys }
      \cup { Call(fn, <<k, n>>) : fn \in {"incr_by", "decr_by"}, k \in {Foo}, n \in Amounts }
      \cup { Call(fn, <<k, x>>) : fn \in {"incr_by_float", "decr_by_float"},
                                  k \in {Foo}, x \in Floats }
      \cup { Call("setbit", <<k, o, b>>) : k \in {Foo}, o \in Offsets, b \in BOOLEAN }
      \cup { Call("getbit", <<k, o>>) : k \in {Foo}, o \in Offsets }
      \cup { Call("bitpos", <<k, b>>) : k \in {Foo}, b \in BOOLEAN }
      \cup { Call(fn, <<Foo, Bar>>) : fn \in {"bitop::not", "bitop::and", "bitop::or",
                                              "bitop::xor"} }
      \cup { Call("echo", <<v>>) : v \in Values }
      \cup { Call("Command::cmd", <<AUTH_>>) }
      \cup { Call("set", <<LongKey, <<>> >>), Call("get", <<LongKey, "Vec<u8>">>),
              Call("incr", <<LongKey>>), Call("decr", <<LongKey>>),
              Call("incr_by", <<LongKey, I64(FALSE, <<2>>)>>),
              Call("decr_by", <<LongKey, I64(FALSE, <<2>>)>>),
              Call("incr_by_float", <<LongKey, F64(FALSE, <<49, 46, 53>>)>>),
              Call("setbit", <<LongKey, 0, TRUE>>), Call("getbit", <<LongKey, 0>>),
              Call("bitcount", <<LongKey>>), Call("bitpos", <<LongKey, TRUE>>),
              Call("bitop::not", <<LongKey, Bar>>), Call("bitop::and", <<Foo, LongKey>>) }

\* the value the constructor call returns, or Panic
Constructed(c, checks) ==
    CASE c.fn = "set" -> set(c.args[1], c.args[2])
      [] c.fn = "mset" -> mset
      [] c.fn = "get" -> get(c.args[1], c.args[2])
      [] c.fn = "mget" -> mget(c.args[1])
      [] c.fn = "incr" -> incr(c.args[1])
      [] c.fn = "incr_by" -> incr_by(c.args[1], c.args[2])
      [] c.fn = "decr" -> decr(c.args[1])
      [] c.fn = "decr_by" -> decr_by(c.args[1], c.args[2], checks)
      [] c.fn = "incr_by_float" -> incr_by_float(c.args[1], c.args[2])
      [] c.fn = "decr_by_float" -> decr_by_float(c.args[1], c.args[2])
      [] c.fn = "setbit" -> setbit(c.args[1], c.args[2], c.args[3])
      [] c.fn = "getbit" -> getbit(c.args[1], c.args[2])
      [] c.fn = "bitcount" -> bitcount(c.args[1])
      [] c.fn = "bitpos" -> bitpos(c.args[1], c.args[2])
      [] c.fn = "bitop::not" -> bitop_not(c.args[1], c.args[2])
      [] c.fn = "bitop::and" -> bitop_nary(AND_, c.args[1], c.args[2])
      [] c.fn = "bitop::or" -> bitop_nary(OR_, c.args[1], c.args[2])
      [] c.fn = "bitop::xor" -> bitop_nary(XOR_, c.args[1], c.args[2])
      [] c.fn = "ping" -> ping
      [] c.fn = "echo" -> echo(c.args[1])
      [] c.fn = "Command::cmd" -> Command_cmd(c.args[1])

\* the decoded responses a command is answered with
Answers ==
    { Error(<<69, Space, 120>>), Error(<<>>), Null, IntOf(FALSE, 0), IntOf(FALSE, 1),
      IntOf(TRUE, 1), String(PONG_), String(<<49, 46, 53>>), String(<<255>>),
      Error(<<Space, 120>>),
      Array(<<>>), Array(<<Null, String(Foo)>>), Array(<<Error(<<69>>)>>),
      Array(<<String(<<255>>), IntOf(FALSE, 1), Error(<<69>>)>>),
      Array(<<Null, Array(<<Error(<<69>>)>>)>>) }

CommandInit ==
    /\ ParserInit
    /\ stream = <<>>
    /\ frames = <<>>
    /\ valid = TRUE
    /\ pc = "off"
    /\ cmds = <<>>
    /\ replies = <<>>
    /\ wire = 0
    /\ chan = <<>>
    /\ srv = 0
    /\ eof = FALSE
    /\ rd = "done"
    /\ debug_assertions \in BOOLEAN
    /\ call \in Calls
    /\ command = NoCommand
    /\ request = NoRequest
    /\ outcome = NoOutcome

restVars == <<parserVars, historyVars, streamVars, sent, pipeVars, connVars>>

\* a command value exists and has neither been encoded nor consumed
Building(t) ==
    /\ command # Panic
    /\ command.t = t
    /\ request = NoRequest

Build(c) ==
    /\ command' = c
    /\ UNCHANGED <<debug_assertions, call, request, outcome, restVars>>

Construct ==
    /\ command = NoCommand
    /\ Build(Constructed(call, debug_assertions))

WithExpiry(duration) ==
    \/ Building("Set") /\ Build(Set_with_expiry(command, duration))
    \/ Building("SetIfExists")
         /\ Build(SetIfExists_with_expiry(command, duration, debug_assertions))

IfExists(exists) == Building("Set") /\ Build(if_exists(command, exists))

\* the keys given to mset are kept, in the order given, in the arguments
\* of the call
Add(k, v) ==
    /\ Building("SetMany")
    /\ Len(command.key_value_pairs) < MaxItems
    /\ command' = add(command, k, v)
    /\ call' = [call EXCEPT !.args = Append(@, k)]
    /\ UNCHANGED <<debug_assertions, request, outcome, restVars>>

IfNoneExists == Building("SetMany") /\ Build(if_none_exists(command))

WithDefault(T) ==
    /\ Building("Get")
    /\ command.T = T
    /\ Build(with_default(command, IF T = "i64" THEN Zero ELSE Foo))

\* the keys given to mget are kept, in the order given, after the declared
\* type in the arguments of the call
Key(k) ==
    /\ Building("GetMultipleList")
    /\ Len(command.keys) < MaxItems
    /\ command' = GetMultipleList_key(command, k)
    /\ call' = [call EXCEPT !.args = Append(@, k)]
    /\ UNCHANGED <<debug_assertions, request, outcome, restVars>>

WithKeys(keys) ==
    /\ Building("GetMultipleList")
    /\ command' = GetMultipleList_with_keys(command, keys)
    /\ call' = [call EXCEPT !.args = <<call.args[1]>> \o keys]
    /\ UNCHANGED <<debug_assertions, request, outcome, restVars>>

\* the range given last is kept after the constructor's arguments of the call
InRange(range) ==
    /\ \/ /\ Building("BitCount")
          /\ range.kind # "RangeFrom"
          /\ command' = BitCount_in_range(command, into_bounds(range))
          /\ call' = [call EXCEPT !.args = <<call.args[1], range>>]
       \/ /\ Building("BitPos")
          /\ command' = BitPos_in_range(command, into_lower_bounds(range))
          /\ call' = [call EXCEPT !.args = <<call.args[1], call.args[2], range>>]
    /\ UNCHANGED <<debug_assertions, request, outcome, restVars>>

WithSource(source) ==
    /\ Building("BitOpNAry")
    /\ Len(command.sources) <= MaxItems
    /\ command' = with_source(command, source)
    /\ call' = [call EXCEPT !.args = Append(@, source)]
    /\ UNCHANGED <<debug_assertions, request, outcome, restVars>>

WithArg(argument) ==
    /\ Building("Command")
    /\ Len(command.args) < MaxItems
    /\ Build(with_arg(command, argument))

\* the keys the calls so far have given
KeyConstructors ==
    { "set", "get", "incr", "incr_by", "decr", "decr_by", "incr_by_float",
      "decr_by_float", "setbit", "getbit", "bitcount", "bitpos" }
BitOps == { "bitop::not", "bitop::and", "bitop::or", "bitop::xor" }
GivenKeys ==
    CASE call.fn \in KeyConstructors -> <<call.args[1]>>
      [] call.fn \in BitOps \cup {"mset"} -> call.args
      [] call.fn = "mget" -> Tail(call.args)
      [] OTHER -> <<>>

\* Client::issue_command: cmd.get_bytes(); the frames of the keys that are
\* written out are enumerated
GetBytes ==
    /\ command \notin {NoCommand, Panic}
    /\ request = NoRequest
    /\ \A i \in DOMAIN GivenKeys : WrittenOut(GivenKeys[i])
    /\ request' = get_bytes(command, debug_assertions)
    /\ UNCHANGED <<debug_assertions, call, command, outcome, restVars>>

\* Client::get_response once the parser has returned the response:
\* converter.convert_redis_result(value).map_err(...)
Convert(response) ==
    /\ request \notin {NoRequest, Panic}
    /\ outcome = NoOutcome
    /\ outcome' = [response |-> response,
                   converted |-> CommandConvert(command, response),
                   result |-> MapConversionError(CommandConvert(command, response))]
    /\ UNCHANGED <<debug_assertions, call, command, request, restVars>>

\* the caller reads the two views of the server error a call returned
Inspect ==
    /\ outcome # NoOutcome
    /\ "views" \notin DOMAIN outcome
    /\ outcome.result.kind = "Err"
    /\ outcome.result.error.e = "RedisReturnedError"
    /\ outcome' = [response |-> outcome.response,
                   converted |-> outcome.converted,
                   result |-> outcome.result,
                   views |->
                     [kind |-> RedisErrorValue_kind(outcome.result.error.error),
                      message |->
                        RedisErrorValue_message(outcome.result.error.error)]]
    /\ UNCHANGED <<debug_assertions, call, command, request, restVars>>

CommandNext ==
    \/ Construct
    \/ \E duration \in Durations : WithExpiry(duration)
    \/ \E exists \in BOOLEAN : IfExists(exists)
    \/ \E k \in AnyKeys, v \in Values : Add(k, v)
    \/ IfNoneExists
    \/ \E T \in Types : WithDefault(T)
    \/ \E k \in AnyKeys : Key(k)
    \/ \E keys \in KeyLists : WithKeys(keys)
    \/ \E range \in Ranges : InRange(range)
    \/ \E source \in AnyKeys : WithSource(source)
    \/ \E argument \in Values : WithArg(argument)
    \/ GetBytes
    \/ \E response \in Answers : Convert(response)
    \/ Inspect

CommandSpec == CommandInit /\ [][CommandNext]_vars

(***************************************************************************)
(* Feeding a stream whole and pulling until no further value comes.        *)
(***************************************************************************)
RECURSIVE PullAll(_, _, _, _)
PullAll(buf, p, st, acc) ==
    LET r == get_response(buf, p, st)
    IN  IF r.res.kind = "Some"
          THEN PullAll(r.buffer, r.ptr, r.state, Append(acc, r.res.value))
          ELSE acc

FedWhole(s) == PullAll(feed(<<>>, s), 0, Waiting, <<>>)

IsPrefix(a, b) == Len(a) <= Len(b) /\ a = SubSeq(b, 1, Len(a))

\* the last call was a get_response
Pulled == last.kind \in {"Some", "None", "Err", "Panic"}

(***************************************************************************)
(* C2  Chunking invariance: for a valid RESP stream, however it is split   *)
(* into chunks and wherever pulls are made between the feeds, the values   *)
(* pulled are the values pulled when the stream is fed whole: always a     *)
(* prefix of them, and all of them once every byte is fed and a pull has   *)
(* returned NeedMore.                                                      *)
(***************************************************************************)
C2_ChunkingInvariance ==
    valid =>
      /\ IsPrefix(outputs, FedWhole(stream))
      /\ (sent = Len(stream) /\ last.kind = "None") => outputs = FedWhole(stream)

C2_Witness ==
    /\ valid /\ resumed
    /\ sent = Len(stream) /\ last.kind = "None"
    /\ Len(outputs) >= 2
    /\ outputs = FedWhole(stream)

(***************************************************************************)
(* C3  Non-panic: no get_response ends in a panic; each returns a value,   *)
(* NeedMore or a ParseError.                                               *)
(***************************************************************************)
C3_NonPanic == Pulled => last.kind \in {"Some", "None", "Err"}

(***************************************************************************)
(* C4  Once a pull has returned a ParseError, every later pull returns     *)
(* ParserIsInAnErrorState.                                                 *)
(***************************************************************************)
C4_ErrorIsSticky ==
    [][(err # NoError /\ last'.kind # "Fed") => last' = Err(ParserIsInAnErrorState)]_vars

(***************************************************************************)
(* C5  Errored is terminal: no feed and no pull takes the parser state     *)
(* from Errored to any other state.                                        *)
(***************************************************************************)
C5_ErroredIsTerminal == [][state.tag = "Errored" => state'.tag = "Errored"]_vars

C5_Witness ==
    /\ state.tag = "Errored"
    /\ last = Err(ParserIsInAnErrorState)
    /\ sent > consumed

(***************************************************************************)
(* C6  Buffer reclamation bound: after a successful pull the buffer is no  *)
(* longer than the in-flight frame's prefix (cursor minus the earliest     *)
(* offset the state refers to) plus the unconsumed bytes at or after the   *)
(* cursor.                                                                 *)
(***************************************************************************)
InFlightPrefix == max_needed_buffer(state, ptr)
Unconsumed == Max(Len(buffer) - ptr, 0)

C6_ReclamationBound ==
    last.kind = "Some" => Len(buffer) <= InFlightPrefix + Unconsumed

(***************************************************************************)
(* C7  Reclamation never discards a needed byte: the buffer is always the  *)
(* fed stream without its first `discarded` bytes, nothing at or after the *)
(* cursor is discarded, and the cursor is shifted by exactly the number of *)
(* bytes discarded, so that it denotes the same stream position.           *)
(***************************************************************************)
C7_ReclamationKeepsNeededBytes ==
    /\ buffer = SubSeq(stream, discarded + 1, sent)
    /\ discarded <= consumed
    /\ ptr = consumed - discarded
    /\ max_needed_buffer(state, ptr) <= ptr

C7_Witness ==
    /\ last.kind = "Some"
    /\ discarded > 0
    /\ Len(buffer) > ptr + 1

(***************************************************************************)
(* C8  Array framing: an array frame of declared length n followed by its  *)
(* n element frames is pulled as exactly one Array of those n elements in  *)
(* input order, the parser is Waiting afterwards and the frame after the   *)
(* array is pulled as the next value.                                      *)
(***************************************************************************)
C8_ArrayFraming ==
    valid =>
      /\ Len(outputs) <= Len(frames)
      /\ \A i \in 1..Len(outputs) :
           (frames[i].t = "Array" \/ (i > 1 /\ frames[i - 1].t = "Array"))
             => outputs[i] = frames[i]
      /\ (last.kind = "Some" /\ last.value.t = "Array") => state = Waiting

C8_Witness ==
    /\ valid /\ resumed
    /\ Len(outputs) >= 2
    /\ outputs[1].t = "Array" /\ Len(outputs[1].elements) = 2
    /\ outputs[1].elements[1].t = "Array"
    /\ outputs[2] = frames[2]

(***************************************************************************)
(* C9  Parser round-trip: for values built from integers, byte-strings     *)
(* sent as bulk strings, Null and nested arrays, parsing the encoding of   *)
(* the values yields exactly the values, and a pull that returns the k-th  *)
(* value has consumed exactly the encodings of the first k values.         *)
(***************************************************************************)
RECURSIVE HasServerError(_)
HasServerError(v) ==
    \/ v.t = "Error"
    \/ v.t = "Array" /\ \E i \in 1..Len(v.elements) : HasServerError(v.elements[i])

RoundTripInput ==
    /\ valid
    /\ stream = EncodeAll(frames)
    /\ \A i \in 1..Len(frames) : ~HasServerError(frames[i])

C9_RoundTrip ==
    RoundTripInput =>
      /\ IsPrefix(outputs, frames)
      /\ last.kind = "Some" => consumed = Len(EncodeAll(outputs))
      /\ (sent = Len(stream) /\ last.kind = "None") => outputs = frames

C9_Witness ==
    /\ RoundTripInput
    /\ last.kind = "Some"
    /\ outputs = frames
    /\ Len(outputs) = 2
    /\ outputs[1] = Integer(I64(TRUE, I64MinMag))

(***************************************************************************)
(* C10  Length-prefix special cases of the first frame of a stream: a bulk *)
(* or array length of -1 is pulled as Null, a bulk length of 0 as the      *)
(* empty byte-string, an array length of 0 as the empty array, and any     *)
(* other negative length n as InvalidBulkStringLength(n) respectively      *)
(* InvalidArrayLength(n), leaving the parser Errored.                      *)
(***************************************************************************)
FirstCR == IF \E k \in 1..Len(stream) : stream[k] = CR
             THEN CHOOSE k \in 1..Len(stream) :
                    stream[k] = CR /\ \A j \in 1..(k - 1) : stream[j] # CR
             ELSE 0

HeadLength ==
    IF Len(stream) >= 1 /\ stream[1] \in {Dollar, Star} /\ FirstCR > 0
         /\ from_utf8(SubSeq(stream, 2, FirstCR - 1))
      THEN ParseI64(SubSeq(stream, 2, FirstCR - 1))
      ELSE [ok |-> FALSE]

C1_FifoPairing ==
    /\ Len(replies) <= Len(cmds)
    /\ pc = "idle" => Len(replies) = Len(cmds)
    /\ \A k \in 1..Len(replies) :
         replies[k] = MapConversionError(convert_redis_result(cmds[k], frames[k]))

C1_Witness ==
    /\ resumed
    /\ Len(replies) = 2
    /\ cmds[1] # cmds[2]
    /\ frames[1] # frames[2]
    /\ replies[1].kind = "Ok"
    /\ replies[2].kind = "Ok"

(***************************************************************************)
(* C11  Outcome mapping of Client::get_response: the channel is received   *)
(* from only after the parser has reported that it needs more bytes; a     *)
(* decoded value returns the command's conversion of it, a parse failure   *)
(* ProtocolParseError, an Err chunk ConnectionError carrying the error,    *)
(* and a closed, empty channel InternalConnectionError.                    *)
(***************************************************************************)
C11_OutcomeMapping ==
    [][ /\ Len(chan') < Len(chan) => (pc = "recv" /\ last.kind = "None")
        /\ Len(replies') > Len(replies) =>
             LET reply == replies'[Len(replies')]
                 cmd == cmds'[Len(cmds')]
             IN  CASE last'.kind = "Some" ->
                        reply = MapConversionError(convert_redis_result(cmd, last'.value))
                   [] last'.kind = "Err" -> reply = Fail(ProtocolParseError(last'.error))
                   [] last'.kind = "None" ->
                        /\ pc = "recv"
                        /\ IF chan = <<>>
                             THEN rd # "run" /\ reply = Fail(InternalConnectionError)
                             ELSE /\ ~Head(chan).ok
                                  /\ reply = Fail(ConnectionError(Head(chan).error))
                   [] OTHER -> FALSE
      ]_vars

C11_Witness ==
    /\ Len(replies) = 2
    /\ replies[1] = Fail(ConnectionError(IoError))
    /\ replies[2].kind = "Err"
    /\ replies[2].error.e = "ProtocolParseError"

(***************************************************************************)
(* C12  After a get_response has failed with ConnectionError, no later     *)
(* get_response on the same pipeline returns a typed success.              *)
(***************************************************************************)
C12_UnusableAfterConnectionError ==
    \A i \in 1..Len(replies) : \A j \in 1..Len(replies) :
        (i < j /\ replies[i] = Fail(ConnectionError(IoError))) => replies[j].kind = "Err"

(***************************************************************************)
(* C13  After a get_response has failed with InternalConnectionError,      *)
(* every later get_response on the same pipeline fails with                *)
(* InternalConnectionError.                                                *)
(***************************************************************************)
C13_ClosedChannelStaysClosed ==
    \A i \in 1..Len(replies) : \A j \in 1..Len(replies) :
        (i < j /\ replies[i] = Fail(InternalConnectionError))
          => replies[j] = Fail(InternalConnectionError)

C13_Witness ==
    /\ Len(replies) = 2
    /\ replies[1] = Fail(InternalConnectionError)
    /\ replies[2] = Fail(InternalConnectionError)
    /\ sent > 0

(***************************************************************************)
(* C14  End of stream: when the server has closed the connection without   *)
(* writing the whole response that is awaited, the pending get_response    *)
(* eventually returns.                                                     *)
(***************************************************************************)
C14_EndOfStream == (pc = "recv" /\ eof /\ srv < Emitted) ~> (pc # "recv")

C16_Progress == (pc = "recv" /\ srv >= Emitted) ~> (pc # "recv")

C16_Witness ==
    /\ pc = "idle"
    /\ Len(replies) = 2
    /\ replies[2].kind = "Ok"
    /\ resumed
    /\ wire = Len(stream)

(***************************************************************************)
(* Reading a request back as a bulk array: "*<count>\r\n" and then count   *)
(* elements "$<length>\r\n<length bytes>\r\n" that end where the bytes end. *)
(***************************************************************************)
NotDecimal == [ok |-> FALSE]

\* the decimal number from offset i up to the CR LF that ends its line, and
\* the offset after that line
RECURSIVE ReadDecimal(_, _, _, _)
ReadDecimal(bs, i, acc, any) ==
    IF i > Len(bs) THEN NotDecimal
    ELSE IF IsDigit(bs[i]) THEN ReadDecimal(bs, i + 1, 10 * acc + (bs[i] - Digit0), TRUE)
    ELSE IF any /\ bs[i] = CR /\ i < Len(bs) /\ bs[i + 1] = LF
      THEN [ok |-> TRUE, n |-> acc, next |-> i + 2]
    ELSE NotDecimal

NotBulks == [ok |-> FALSE, elements |-> <<>>]

\* the n bulk strings from offset i on
RECURSIVE ReadBulks(_, _, _, _)
ReadBulks(bs, i, n, acc) ==
    IF n = 0 THEN (IF i = Len(bs) + 1 THEN [ok |-> TRUE, elements |-> acc] ELSE NotBulks)
    ELSE IF i > Len(bs) \/ bs[i] # Dollar THEN NotBulks
    ELSE LET d == ReadDecimal(bs, i + 1, 0, FALSE)
         IN  IF ~d.ok THEN NotBulks
             ELSE IF d.next + d.n + 1 > Len(bs) THEN NotBulks
             ELSE IF bs[d.next + d.n] # CR \/ bs[d.next + d.n + 1] # LF THEN NotBulks
             ELSE ReadBulks(bs, d.next + d.n + 2, n - 1,
                            Append(acc, SubSeq(bs, d.next, d.next + d.n - 1)))

ReadBulkArray(bs) ==
    IF bs = <<>> \/ bs[1] # Star THEN NotBulks
    ELSE LET d == ReadDecimal(bs, 2, 0, FALSE)
         IN  IF ~d.ok THEN NotBulks ELSE ReadBulks(bs, d.next, d.n, <<>>)

(***************************************************************************)
(* C17  Every constructed command encodes to a well-formed bulk-array      *)
(* frame: the count of the header is the number of bulk elements that      *)
(* follow and each length prefix is the number of bytes of its element.    *)
(***************************************************************************)
C17_WellFormedEncoding ==
    request \notin {NoRequest, Panic} => ReadBulkArray(request.bytes).ok

\* the mathematical net change asked for: n for incr_by and -n for decr_by,
\* as a sign and a magnitude (2^63 for decr_by of i64::MIN)
NetChange ==
    IF call.fn = "incr_by" \/ call.args[2] = Zero THEN call.args[2]
    ELSE I64(~call.args[2].neg, call.args[2].mag)

\* the elements are INCR or DECR of the key for a change of one, and
\* otherwise INCRBY or DECRBY of the key with the digits of the magnitude
EncodesChange(elements, k, net) ==
    IF net = I64(FALSE, <<1>>) THEN elements = <<INCR_, k>>
    ELSE IF net = MinusOne THEN elements = <<DECR_, k>>
    ELSE /\ Len(elements) = 3
         /\ elements[2] = k
         /\ elements[3] = [i \in 1..Len(net.mag) |-> net.mag[i] + Digit0]
         /\ \/ elements[1] = INCRBY_ /\ ~net.neg
            \/ elements[1] = DECRBY_ /\ (net.neg \/ net = Zero)

(***************************************************************************)
(* C18  For every i64 n, incr_by(key, n) and decr_by(key, n) are encoded,  *)
(* as INCR or DECR without argument when the net change is +1 or -1 and    *)
(* otherwise as INCRBY or DECRBY of the non-negative magnitude of the net  *)
(* change, so that the net effect is +n and -n.                            *)
(***************************************************************************)
C18_IncrByEncoding ==
    call.fn \in {"incr_by", "decr_by"} =>
      /\ command # Panic
      /\ request # Panic
      /\ request # NoRequest =>
           EncodesChange(ReadBulkArray(request.bytes).elements, call.args[1], NetChange)

(***************************************************************************)
(* C19  The expiry of a set command is strictly positive: with_expiry      *)
(* leaves no expiry of zero milliseconds in the command, and no SET frame  *)
(* has 0 as the argument of PX.                                            *)
(***************************************************************************)
C19_ExpiryStrictlyPositive ==
    /\ (command \notin {NoCommand, Panic} /\ command.t \in {"Set", "SetIfExists"}
          /\ command.expiry # None)
         => as_millis(command.expiry.v) > 0
    /\ (request \notin {NoRequest, Panic} /\ command.t \in {"Set", "SetIfExists"})
         => LET elements == ReadBulkArray(request.bytes).elements
            IN  (Len(elements) >= 5 /\ elements[4] = PX_) => elements[5] # <<Digit0>>

(***************************************************************************)
(* C20  For every command type, a top-level server error as the response   *)
(* makes the call fail with RedisReturnedError carrying the payload of the *)
(* server's error unchanged.                                               *)
(***************************************************************************)
C20_ServerErrorIsReturned ==
    (outcome # NoOutcome /\ outcome.response.t = "Error")
      => outcome.result = Fail(RedisReturnedError(outcome.response.contents))

C20_Witness ==
    /\ outcome # NoOutcome
    /\ outcome.response = Error(<<69, Space, 120>>)
    /\ command.t = "GetWithDefault"
    /\ outcome.result = Fail(RedisReturnedError(<<69, Space, 120>>))

(***************************************************************************)
(* C21  Converting any decoded response to any command's declared output   *)
(* ends with a typed success or a tagged error; it never panics.           *)
(***************************************************************************)
C21_ConversionIsTotal ==
    outcome # NoOutcome => outcome.result.kind \in {"Ok", "Err"}

ElementConversions ==
    [i \in 1..Len(outcome.response.elements)
       |-> TryFromOption(command.T, outcome.response.elements[i])]

FirstFailure ==
    CHOOSE i \in 1..Len(outcome.response.elements) :
      /\ ElementConversions[i].kind # "Ok"
      /\ \A j \in 1..(i - 1) : ElementConversions[j].kind = "Ok"

C23_MgetOrderAndCollection ==
    (command \notin {NoCommand, Panic} /\ command.t = "GetMultipleList") =>
      /\ request # NoRequest =>
           /\ request # Panic
           /\ ReadBulkArray(request.bytes).ok
           /\ ReadBulkArray(request.bytes).elements = <<MGET_>> \o Tail(call.args)
      /\ (outcome # NoOutcome /\ outcome.response.t = "Array") =>
           IF \A i \in DOMAIN ElementConversions : ElementConversions[i].kind = "Ok"
             THEN /\ outcome.converted.kind = "Ok"
                  /\ Len(outcome.converted.value) = Len(outcome.response.elements)
                  /\ \A i \in DOMAIN ElementConversions :
                       outcome.converted.value[i] = ElementConversions[i].value
           ELSE /\ outcome.converted.kind = "Err"
                /\ outcome.converted = ElementConversions[FirstFailure]

(***************************************************************************)
(* C24  bitcount(key).in_range(r) sends the inclusive bounds that denote   *)
(* exactly the indices r contains: start a and end b - 1 for the exclusive *)
(* range a..b, start a and end b for the inclusive range a..=b.            *)
(***************************************************************************)
GivenRange == call.args[2]

InclusiveEnd(range) ==
    IF range.kind = "Range" THEN range.end - 1 ELSE range.end

C24_BitCountRange ==
    (call.fn = "bitcount" /\ Len(call.args) = 2 /\ request # NoRequest) =>
      /\ request # Panic
      /\ ReadBulkArray(request.bytes).elements =
           << BITCOUNT_, call.args[1],
              I64ToString(I64FromInt(GivenRange.start)),
              I64ToString(I64FromInt(InclusiveEnd(GivenRange))) >>

(***************************************************************************)
(* C25  For every constructor and builder method that takes a key, a key   *)
(* longer than 512 MiB is rejected by a panic there: no command value      *)
(* holds it and no request is encoded for it.                              *)
(***************************************************************************)
OverlongKeyGiven ==
    \E i \in DOMAIN GivenKeys : String_len(GivenKeys[i]) > 512 * 1024 * 1024

C25_KeySizeGuard ==
    (OverlongKeyGiven /\ command # NoCommand) =>
      /\ command = Panic
      /\ request = NoRequest

(***************************************************************************)
(* C26  For every server error payload, kind is the text before the first  *)
(* space (the whole payload when it has no space) and message the text     *)
(* after the first space; kind is non-empty whenever the payload is        *)
(* non-empty.                                                              *)
(***************************************************************************)
Payload == outcome.result.error.error

Inspected == outcome # NoOutcome /\ "views" \in DOMAIN outcome

C26_KindNonEmpty ==
    (Inspected /\ Payload # <<>>) => outcome.views.kind # Some(<<>>)

\* as amended: kind and message are the two parts of the payload around
\* its first space, and kind is non-empty whenever the payload is non-empty
\* and does not begin with a space
C26_KindNonEmptyUnlessLeadingSpace ==
    Inspected =>
      /\ outcome.views.kind.t = "Some"
      /\ \A i \in DOMAIN outcome.views.kind.v : outcome.views.kind.v[i] # Space
      /\ IF outcome.views.message = None
           THEN Payload = outcome.views.kind.v
         ELSE Payload = outcome.views.kind.v \o <<Space>> \o outcome.views.message.v
      /\ (Payload # <<>> /\ Payload[1] # Space) => outcome.views.kind.v # <<>>

C26_Witness ==
    /\ Inspected
    /\ Payload = <<69, Space, 120>>
    /\ outcome.views = [kind |-> Some(<<69>>), message |-> Some(<<120>>)]

(***************************************************************************)
(* C27  feed only appends: it adds the given bytes at the end of the       *)
(* buffer and changes nothing else; the cursor, the parser state and the   *)
(* bytes already in the buffer are unchanged and no value or error is      *)
(* produced.  (A step after which the last operation was a feed is a feed: *)
(* every pull records its own outcome.)                                    *)
(***************************************************************************)
C27_FeedOnlyAppends ==
    [][last'.kind = "Fed" =>
         /\ buffer' = buffer \o SubSeq(stream, sent + 1, sent')
         /\ ptr' = ptr
         /\ state' = state
         /\ outputs' = outputs
         /\ err' = err]_vars

\* a feed in the middle of a token, with bytes already in the buffer
C27_Witness ==
    /\ last.kind = "Fed"
    /\ resumed
    /\ state.tag # "Waiting"
    /\ ptr > 0
    /\ Len(buffer) > 1

(***************************************************************************)
(* C28  A pull that returns NeedMore leaves the buffer as it was (no       *)
(* reclamation runs) and keeps the parser state; a further pull with no    *)
(* feed in between returns NeedMore again and changes neither the state,   *)
(* the cursor nor the buffer.                                              *)
(***************************************************************************)
PullAgain == get_response(buffer, ptr, state)

C28_NeedMoreIsIdle ==
    /\ [][last'.kind = "None" => buffer' = buffer /\ discarded' = discarded]_vars
    /\ [](last.kind = "None" =>
            /\ PullAgain.res = OkNone
            /\ PullAgain.buffer = buffer
            /\ PullAgain.ptr = ptr
            /\ PullAgain.state = state)

\* NeedMore in the middle of a token, with bytes in the buffer
C28_Witness ==
    /\ last.kind = "None"
    /\ state.tag \notin {"Waiting", "Errored"}
    /\ buffer # <<>>
    /\ ptr > 0

(***************************************************************************)
(* C29  Whenever the parser is in an array state, at any depth, the        *)
(* elements collected and the capacity that remains add up to the declared *)
(* length of the array being read, fewer elements are collected than       *)
(* declared, and the array is emitted at the step that collects its last   *)
(* element: an array state never holds a full vector, and an emitted array *)
(* has exactly the declared number of elements.                            *)
(***************************************************************************)
\* elements.len() < elements.capacity() in the array state st and in the
\* states nested in it
RECURSIVE BelowCapacity(_)
BelowCapacity(st) ==
    st.tag = "ParsingArray" =>
      /\ ~st.capacity.neg
      /\ MagLeq(NatToMag(Len(st.elements) + 1), st.capacity.mag)
      /\ BelowCapacity(st.cur_state)

\* the array state st is reading the frame of the value v: its capacity is
\* the declared length, its elements are the first elements of v
RECURSIVE ReadsFrame(_, _)
ReadsFrame(st, v) ==
    st.tag = "ParsingArray" =>
      /\ v.t = "Array"
      /\ EqualsNat(st.capacity, Len(v.elements))
      /\ Len(st.elements) < Len(v.elements)
      /\ st.elements = SubSeq(v.elements, 1, Len(st.elements))
      /\ ReadsFrame(st.cur_state, v.elements[Len(st.elements) + 1])

C29_ArrayStateCounts ==
    /\ BelowCapacity(state)
    /\ (valid /\ state.tag = "ParsingArray") =>
         /\ Len(outputs) < Len(frames)
         /\ ReadsFrame(state, frames[Len(outputs) + 1])
    /\ (valid /\ last.kind = "Some" /\ last.value.t = "Array") =>
         /\ state.tag # "ParsingArray"
         /\ Len(last.value.elements) = Len(frames[Len(outputs)].elements)

\* an array nested in an array, the outer one holding an element already
C29_Witness ==
    /\ valid
    /\ state.tag = "ParsingArray"
    /\ Len(state.elements) = 1
    /\ state.cur_state.tag = "ParsingArray"
    /\ state.cur_state.cur_state.tag \notin {"Waiting", "ParsingArray"}

(***************************************************************************)
(* C30  In every reachable state the start offset of the token in progress *)
(* (the innermost state of nested arrays) denotes a position reclamation   *)
(* has not discarded and is correct for the buffer as it is: the byte      *)
(* before it in the buffer is the prefix byte of the token (the CR that    *)
(* ends the length line, for the contents of a bulk string), and no step   *)
(* that leaves a token in progress discards a byte.                        *)
(***************************************************************************)
RECURSIVE Innermost(_)
Innermost(st) == IF st.tag = "ParsingArray" THEN Innermost(st.cur_state) ELSE st

InProgress(st) == Innermost(st).tag \notin {"Waiting", "Errored"}

PrefixOf(tag) ==
    CASE tag = "ParsingInteger" -> Colon
      [] tag = "ParsingSimpleString" -> Plus
      [] tag = "ParsingError" -> Minus
      [] tag = "ParsingBulkStringSize" -> Dollar
      [] tag = "ParsingArraySize" -> Star

OffsetIsCorrect(st) ==
    IF st.tag = "ParsingBulkString"
      THEN /\ st.start >= 2
           /\ st.start - 1 <= Len(buffer)
           /\ buffer[st.start - 1] = CR
    ELSE /\ st.start >= 1
         /\ st.start <= Len(buffer)
         /\ buffer[st.start] = PrefixOf(st.tag)

C30_OffsetsStayValid ==
    /\ [](InProgress(state) => OffsetIsCorrect(Innermost(state)))
    /\ [][InProgress(state') => discarded' = discarded]_vars

\* a token in progress inside an array, after an earlier frame was reclaimed
C30_Witness ==
    /\ discarded > 0
    /\ state.tag = "ParsingArray"
    /\ InProgress(state)
    /\ Innermost(state).start > 1

(***************************************************************************)
(* C31  An integer frame at the head of the stream: the pull that first    *)
(* sees its terminating CR returns exactly the integer its decimal text    *)
(* denotes when that lies in the signed 64-bit range; a text outside the   *)
(* range or that is no decimal number makes the pull fail with             *)
(* CannotParseInteger and leaves the parser Errored.                       *)
(*                                                                         *)
(* The decimal reading is written here from the grammar (an optional sign, *)
(* one or more digits), not from the parser: the significant digits are    *)
(* the digits from the first non-zero one on, and the text is in range     *)
(* when they are fewer than nineteen or not above the digits of the bound. *)
(***************************************************************************)
HeadIsInteger == Len(stream) >= 1 /\ stream[1] = Colon /\ FirstCR > 0

HeadText == SubSeq(stream, 2, FirstCR - 1)

Unsigned(text) ==
    IF text # <<>> /\ text[1] \in {Plus, Minus} THEN SubSeq(text, 2, Len(text)) ELSE text

IsDecimalText(text) ==
    /\ Unsigned(text) # <<>>
    /\ \A i \in 1..Len(Unsigned(text)) : Unsigned(text)[i] \in Digit0..(Digit0 + 9)

\* the significant digits of a decimal text, as numbers 0..9
Significant(text) ==
    LET body == Unsigned(text)
        from == IF \E i \in 1..Len(body) : body[i] # Digit0
                  THEN CHOOSE i \in 1..Len(body) :
                         body[i] # Digit0 /\ \A j \in 1..(i - 1) : body[j] = Digit0
                  ELSE Len(body)
    IN  [i \in 1..(Len(body) - from + 1) |-> body[from + i - 1] - Digit0]

\* digit sequences of equal length compared as numbers
NotAbove(a, b) ==
    \/ a = b
    \/ \E i \in 1..Len(a) : a[i] < b[i] /\ \A j \in 1..(i - 1) : a[j] = b[j]

Negative(text) == text[1] = Minus /\ Significant(text) # <<0>>

InI64Range(text) ==
    LET digits == Significant(text)
        bound == IF Negative(text) THEN I64MinMag ELSE I64MaxMag
    IN  Len(digits) < Len(bound) \/ (Len(digits) = Len(bound) /\ NotAbove(digits, bound))

Denoted(text) == Integer([neg |-> Negative(text), mag |-> Significant(text)])

\* a pull that finds the head frame's CR in the buffer for the first time
SeesHeadCR ==
    /\ HeadIsInteger
    /\ sent >= FirstCR
    /\ outputs = <<>>
    /\ err = NoError
    /\ last.kind # "Panic"
    /\ last' # [kind |-> "Fed"]

C31_IntegerFrame ==
    [][SeesHeadCR =>
         IF IsDecimalText(HeadText) /\ InI64Range(HeadText)
           THEN /\ last' = OkSome(Denoted(HeadText))
                /\ outputs' = <<Denoted(HeadText)>>
           ELSE /\ last' = Err(CannotParseInteger)
                /\ err' = CannotParseInteger
                /\ state' = Errored
                /\ outputs' = <<>>]_vars

\* as amended: a text that is not valid UTF-8 fails with CannotConvertToUtf8
C31_IntegerFrameUtf8 ==
    [][SeesHeadCR =>
         IF IsDecimalText(HeadText) /\ InI64Range(HeadText)
           THEN /\ last' = OkSome(Denoted(HeadText))
                /\ outputs' = <<Denoted(HeadText)>>
           ELSE /\ last' = Err(IF from_utf8(HeadText) THEN CannotParseInteger
                                                      ELSE CannotConvertToUtf8)
                /\ err' = last'.error
                /\ state' = Errored
                /\ outputs' = <<>>]_vars

\* the integer one above i64::MAX was refused
C31_Witness ==
    /\ stream = Line(<<Colon>> \o I64ToString(I64(FALSE, I64MinMag)))
    /\ err = CannotParseInteger
    /\ state = Errored
    /\ outputs = <<>>

(***************************************************************************)
(* C32  Builder order independence of set: with_expiry(d) succeeds on the  *)
(* guarded command as it does on the plain one, for every duration d; the  *)
(* guarded command holding an expiry is the command the other order of the *)
(* two builders gives, and its frame is SET k v PX <millis> XX (NX for     *)
(* if_not_exists), with PX before the guard.                               *)
(***************************************************************************)
Guarded ==
    command \notin {NoCommand, Panic} /\ command.t = "SetIfExists"

ExpiryThenGuard(k, v, d, exists) == if_exists(Set_with_expiry(set(k, v), d), exists)

GuardThenExpiry(k, v, d, exists) ==
    SetIfExists_with_expiry(if_exists(set(k, v), exists), d, debug_assertions)

GuardedFrame(k, v, d, exists) ==
    <<SET_, k, v, PX_, NatToMagBytes(d.secs * 1000 + d.nanos \div 1000000),
      IF exists THEN XX_ ELSE NX_>>

C32_BuilderOrderIndependence ==
    /\ [][(Building("SetIfExists") /\ command' # command) => command' # Panic]_vars
    /\ [](\A d \in Durations :
            (Guarded /\ command.expiry = Some(d)) =>
              LET k == call.args[1]
                  v == call.args[2]
              IN  /\ command = ExpiryThenGuard(k, v, d, command.exists)
                  /\ command = GuardThenExpiry(k, v, d, command.exists)
                  /\ request # NoRequest =>
                       /\ request # Panic
                       /\ ReadBulkArray(request.bytes).elements
                            = GuardedFrame(k, v, d, command.exists))

(***************************************************************************)
(* C33  Frame terminators are checked: a stream whose head frame has a     *)
(* byte other than LF after its first CR, or a bulk string whose declared  *)
(* contents are not followed by CR LF, never yields a value, and the pull  *)
(* that has the offending byte in the buffer fails and leaves the parser   *)
(* Errored.                                                                *)
(***************************************************************************)
FramePrefixes == {Colon, Plus, Minus, Dollar, Star}

\* the byte after the first CR of the head frame is there and is not LF
BadLineTerminator ==
    /\ Len(stream) >= 1
    /\ stream[1] \in FramePrefixes
    /\ FirstCR > 0
    /\ FirstCR < Len(stream)
    /\ stream[FirstCR + 1] # LF

\* the offset of the byte after the declared contents of a head bulk string
AfterContents ==
    IF Len(stream) >= 1 /\ stream[1] = Dollar /\ HeadLength.ok
         /\ IsPositive(HeadLength.int) /\ Len(HeadLength.int.mag) <= 2
      THEN FirstCR + 2 + MagToNat(HeadLength.int.mag)
      ELSE 0

\* the byte after the contents is there and the contents are not followed
\* by CR LF
BadBulkTerminator ==
    /\ AfterContents > 0
    /\ AfterContents <= Len(stream)
    /\ ~BadLineTerminator
    /\ \/ stream[AfterContents] # CR
       \/ AfterContents < Len(stream) /\ stream[AfterContents + 1] # LF

OffendingByte ==
    IF BadLineTerminator THEN FirstCR + 1
    ELSE IF stream[AfterContents] # CR THEN AfterContents
    ELSE AfterContents + 1

C33_TerminatorsChecked ==
    (BadLineTerminator \/ BadBulkTerminator) =>
      /\ outputs = <<>>
      /\ (Pulled /\ sent >= OffendingByte) => (last.kind = "Err" /\ state = Errored)

(***************************************************************************)
(* C34  After every pull that returns a value at most one consumed byte is *)
(* left at the front of the buffer: the cursor is 0, or the buffer holds   *)
(* exactly one byte and the cursor is at least 1.                          *)
(***************************************************************************)
C34_AtMostOneStaleByte ==
    last.kind = "Some" => (ptr = 0 \/ (Len(buffer) = 1 /\ ptr >= 1))

\* the empty bulk string pulled when only its first CR was in the buffer:
\* the CR stays and the cursor is three bytes beyond the buffer
C34_Witness ==
    /\ last = OkSome(String(<<>>))
    /\ buffer = <<CR>>
    /\ ptr = 4

(***************************************************************************)
(* C35  Every pull that returns a value leaves the top-level state         *)
(* Waiting: whenever parse_response returns Ok(Some(_)) the state it       *)
(* hands to the reclamation is Waiting, no start offset is recorded in it, *)
(* and the reclamation point before clamping is the cursor itself.         *)
(***************************************************************************)
\* r is what parse_response returns to get_response
ReclaimsWhenWaiting(r) ==
    r.res.kind = "Some" =>
      /\ r.state = Waiting
      /\ max_needed_buffer(r.state, r.ptr) = 0
      /\ r.ptr - max_needed_buffer(r.state, r.ptr) = r.ptr

C35_ValueLeavesWaiting ==
    /\ last.kind = "Some" => (state = Waiting /\ max_needed_buffer(state, ptr) = 0)
    /\ ReclaimsWhenWaiting(parse_response(buffer, ptr, state))

\* an array of two elements was returned with a further frame in the buffer
C35_Witness ==
    /\ last.kind = "Some"
    /\ last.value.t = "Array"
    /\ Len(last.value.elements) = 2
    /\ state = Waiting
    /\ ptr = 0
    /\ buffer # <<>>

(***************************************************************************)
(* C36  The cursor is never more than 3 bytes beyond the end of the        *)
(* buffer; the reclamation leaves the distance between the cursor and the  *)
(* end of the buffer as it was; and the cursor never moves back in the     *)
(* stream, so that a token begun by a pull has its prefix byte at or after *)
(* the position the cursor had before that pull: never in a position that  *)
(* was skipped before its byte arrived.                                    *)
(***************************************************************************)
\* r is what parse_response returns to get_response on the buffer
ReclaimKeepsExcess(r) ==
    r.res.kind = "Some" =>
      LET c == Reclaim(buffer, r.ptr, r.state)
      IN  ~c.panic /\ c.ptr - Len(c.buffer) = r.ptr - Len(buffer)

C36_SkippedTerminators ==
    /\ [](ptr - Len(buffer) <= 3)
    /\ [](ReclaimKeepsExcess(parse_response(buffer, ptr, state)))
    /\ [][/\ consumed' >= consumed
          /\ ptr' - Len(buffer') = consumed' - sent'
          /\ (Innermost(state).tag = "Waiting" /\ InProgress(state'))
               => discarded' + Innermost(state').start > consumed]_vars

\* the empty bulk string was pulled with only its first CR in the buffer,
\* the three skipped bytes were fed with the start of an integer, and the
\* integer is in progress
C36_Witness ==
    /\ outputs = <<String(<<>>)>>
    /\ discarded = 2
    /\ buffer[1] = CR
    /\ state = ParsingInteger(5)
    /\ ptr = Len(buffer)

(***************************************************************************)
(* C37  While the contents of a bulk string of declared size n that start  *)
(* at offset start are being read, the cursor is at most start + n, and    *)
(* the branch of the bulk-string arm marked unreachable is never taken:    *)
(* the only panic of a pull is the capacity overflow of an array header,   *)
(* which leaves the state ParsingArraySize.                                *)
(***************************************************************************)
\* sizes of more than nine digits are beyond every cursor of the model
CursorWithinBulk(st) ==
    Len(st.size.mag) <= 9 => ptr <= st.start + MagToNat(st.size.mag)

C37_BulkCursorBound ==
    /\ Innermost(state).tag = "ParsingBulkString" => CursorWithinBulk(Innermost(state))
    /\ last.kind = "Panic" => state.tag = "ParsingArraySize"

\* all the contents of a bulk string are in the buffer and nothing after
\* them: the cursor stands at start + n
C37_Witness ==
    /\ state.tag = "ParsingBulkString"
    /\ ptr = state.start + MagToNat(state.size.mag)
    /\ ptr = Len(buffer)
    /\ last.kind = "None"

(***************************************************************************)
(* C38  A parse error in an element of an array, at any depth, leaves the  *)
(* whole parser Errored: the pull that fails emits nothing and keeps none  *)
(* of the elements collected, the parser stays Errored and emits nothing   *)
(* afterwards, and a stream whose head array holds an element that does    *)
(* not parse never yields a value.                                         *)
(***************************************************************************)
C38_ElementErrorDiscardsArray ==
    /\ [](last.kind = "Err" => state = Errored)
    /\ [](stream \in BrokenArrays => outputs = <<>>)
    /\ [][/\ (state.tag = "ParsingArray" /\ last'.kind = "Err")
               => (state' = Errored /\ outputs' = outputs)
          /\ state = Errored => (state' = Errored /\ outputs' = outputs)]_vars

\* the array inside the array failed after the outer array had collected an
\* element and a pull had stopped inside the arrays
C38_Witness ==
    /\ stream = Line(<<Star, Digit0 + 2>>) \o Line(<<Colon, Digit0 + 1>>)
                  \o Line(<<Star, Digit0 + 1>>) \o Line(<<Colon, Minus>>)
    /\ resumed
    /\ last = Err(CannotParseInteger)
    /\ state = Errored
    /\ outputs = <<>>

(***************************************************************************)
(* C39  A get_response that fails with RedisReturnedError or with a        *)
(* conversion error has consumed exactly one top-level value of the        *)
(* response stream: when it returns, the cursor stands at the end of the   *)
(* frame of the failed command, the values pulled are the responses up to  *)
(* that command and the parser is Waiting; and the command issued next     *)
(* returns its own conversion of its own response.                         *)
(***************************************************************************)
IsConversionFailure(reply) ==
    /\ reply.kind = "Err"
    /\ reply.error.e \in {"RedisReturnedError", "ConversionError", "StringParseError"}

\* the number of bytes of the first k response frames
EndOfFrame(k) == Len(EncodeAll(SubSeq(frames, 1, k)))

C39_FailureConsumesOneResponse ==
    /\ [][(Len(replies') > Len(replies) /\ IsConversionFailure(replies'[Len(replies')]))
            => LET k == Len(replies')
               IN  /\ consumed' = EndOfFrame(k)
                   /\ outputs' = SubSeq(frames, 1, k)
                   /\ state' = Waiting
                   /\ pc' = "idle"]_vars
    /\ [](\A k \in 1..(Len(replies) - 1) :
            IsConversionFailure(replies[k])
              => replies[k + 1]
                   = MapConversionError(convert_redis_result(cmds[k + 1], frames[k + 1])))

\* the first command failed with the server's error and the second, an
\* incr, returned the integer of its own response
C39_Witness ==
    /\ Len(replies) = 2
    /\ replies[1] = Fail(RedisReturnedError(<<69, Space, 120>>))
    /\ cmds[2] = "Increment"
    /\ replies[2] = Ok(I64(FALSE, <<1>>))
    /\ resumed

====
